---- MODULE Spec2Model ----
(***************************************************************************)
(* TCLI: the response ledger (tcli/command_response.py, class CmdResponse) *)
(* and the dispatch path that drives it (tcli/tcli_lib.py, TCLI.Prompt,    *)
(* TCLI.CmdRequests and TCLI.Callback).                                    *)
(*                                                                         *)
(* The dispatching thread runs CmdRequests step by step; the accessor      *)
(* invokes TCLI.Callback from other threads at any moment after            *)
(* SendRequests.  Callback bodies exclude each other (TCLI._lock), every   *)
(* ledger method is atomic (CmdResponse._lock), and the dispatching        *)
(* thread takes no TCLI._lock, so its steps interleave with the steps of   *)
(* the running Callback.                                                   *)
(*                                                                         *)
(* Several specifications share the module.  Spec and LiveSpec are the     *)
(* dispatch path above.  ParserSpec is the command registry and line       *)
(* parser (tcli/command_parser.py, class CommandParser).  SessionSpec is   *)
(* one ParseCommands call of a session, line by line (tcli/tcli_lib.py,    *)
(* TCLI.ParseCommands, TildeCmd, _ExtractInlineCommands, __copy__ and      *)
(* CmdRequests up to SendRequests), with the wait of CmdRequests reduced   *)
(* to its two outcomes; PlaySpec and LocalSpec are sessions of other       *)
(* lines.  PipeSpec, InlineSpec and DefaultSpec apply ExtractPipe,         *)
(* ExtractInlineCommands and ExecWithDefault to bounded inputs.            *)
(* InventorySpec and InventoryLiveSpec are the device inventory            *)
(* (tcli/inventory_base.py, class Inventory) and its loader thread.        *)
(* LockSpec and LockLiveSpec are the two locks, with every ledger method   *)
(* run statement by statement between its acquisition and its release.     *)
(*                                                                         *)
(* Text is modelled as a sequence of tokens: a command line is the         *)
(* sequence of its words and separators, a buffer is a sequence of lines.  *)
(***************************************************************************)
EXTENDS Integers, Sequences, FiniteSets, TLC

\* Bounds of the model.
MaxUid == 4         \* cap on Inventory.Request.UID
MaxCmds == 2        \* commands (rows) per batch
MaxDevs == 2        \* targets per batch
MaxRedeliver == 1   \* callbacks the accessor repeats for an answered request
MaxLineArgs == 3    \* arguments on a line given to ParseCommandLine
MaxLines == 2       \* input lines a session reads
MaxPieces == 5      \* pieces of a command given to ExtractPipe
MaxSegments == 3    \* ' //' segments of a line given to ExtractInlineCommands
MaxPlayLines == 3   \* input lines of a session that plays buffers
MaxLocalLines == 3  \* input lines of a session of local commands
MaxFilterItems == 2 \* items of a filter string that is appended to
MaxCallbacks == 1   \* requests of a batch, each answered by a Callback
MaxBatches == 2     \* batches that CmdRequests sends, each closed by Prompt

\* The value SetRequest stores in _results before a response arrives ('').
EmptyResult == 0

\* GetRow's "no row" return value.
None == <<>>

VARIABLES
  cmd_response,   \* TCLI.cmd_response: the live CmdResponse object
  ledger_id,      \* identity of that object (flips at every replacement)
  UID,            \* Inventory.Request.UID
  pc,             \* dispatching thread: "idle", "row", "req", "wait"
  command_list,   \* CmdRequests argument: number of command strings
  device_list,    \* CmdRequests argument: number of targets
  cmd_row,        \* CmdRequests: enumerate index of the command loop
  host,           \* CmdRequests: position in the device loop
  requests,       \* CmdRequests: uids of the requests created so far
  inflight,       \* accessor: requests submitted, callback not yet invoked
  delivered,      \* accessor: requests whose callback has been invoked
  redelivered,    \* accessor: number of repeated callbacks
  cbpc,           \* running Callback: "idle", "getrow", "format"
  cb_uid,         \* running Callback: response.uid
  cb_known,       \* running Callback: what AddResponse returned
  row,            \* running Callback: local variable row
  row_pos,        \* _FormatResponse: position in response_uid_list
  released,       \* sink: pipes of the rows the live ledger has released
  shown,          \* sink: uids rendered since the batch started, in order
  warnings,       \* warnings printed since the batch started
  timedout,       \* the wait of the last batch expired
  short,          \* when that wait ended, some request had had no callback
  cli_parser,     \* a CommandParser: command name -> descriptor
  parsed,         \* the last call made on cli_parser: what, on what, result
  tcli,           \* TCLI objects: the session, then the overlays of the last line
  buffers,        \* TextBuffer objects: buffer name -> lines
  ledgers,        \* CmdResponse objects, as registered
  dry_run,        \* FLAGS.dry_run
  inventory,      \* Inventory.device_list
  pending_list,   \* ParseCommands: its local command_list
  input_line,     \* ParseCommands: the line of the last turn
  lines_read,     \* lines read so far
  sent,           \* requests given to SendRequests in the last turn
  warned,         \* warnings printed in the last turn
  calls,          \* CmdRequests calls made in the last turn
  eof,            \* EOFError has left ParseCommands
  tilde,          \* TildeCmd calls made in the last turn
  uncaught,       \* the exception no caller of ParseCommands catches
  inv,            \* an Inventory object
  inv_call,       \* the last call made on it: what, and what it gave
  inv_pc,         \* the main thread: the call that waits for the devices
  loader,         \* the loader thread: "none", "fetch", "returned", "raised"
  lk,             \* the locks: which thread holds CmdResponse._lock, TCLI._lock
  th              \* the threads: where each is, and the object it works on

parser_vars == <<cli_parser, parsed>>

session_vars == <<tcli, buffers, ledgers, dry_run, inventory, pending_list,
                  input_line, lines_read, sent, warned, calls, eof, tilde,
                  uncaught>>

inventory_vars == <<inv, inv_call, inv_pc, loader>>

\* What the parser, the session and the dispatch path leave alone.
lock_vars == <<lk, th>>
aside_vars == <<inventory_vars, lock_vars>>

\* What the dispatch path leaves alone.
other_vars == <<parser_vars, session_vars, aside_vars>>

vars == <<cmd_response, ledger_id, UID, pc, command_list, device_list, cmd_row,
          host, requests, inflight, delivered, redelivered, cbpc, cb_uid,
          cb_known, row, row_pos, released, shown, warnings, timedout, short,
          other_vars>>

main_vars == <<UID, pc, command_list, device_list, cmd_row, host, requests,
               timedout, short>>
cb_vars == <<cbpc, cb_uid, cb_known, row, row_pos>>

\* The variables of the dispatch path but the uid counter, which the
\* session shares.
ledger_vars == <<cmd_response, ledger_id, pc, command_list, device_list,
                 cmd_row, host, requests, timedout, short, cb_vars, inflight,
                 delivered, redelivered, released, shown, warnings>>

\* All the variables of the dispatch path.
dispatch_vars == <<cmd_response, ledger_id, main_vars, cb_vars, inflight,
                   delivered, redelivered, released, shown, warnings>>

Range(s) == {s[i] : i \in 1..Len(s)}

Put(f, k, v) == [x \in DOMAIN f \cup {k} |-> IF x = k THEN v ELSE f[x]]

(***************************************************************************)
(* CmdResponse                                                             *)
(***************************************************************************)

\* CmdResponse.__init__
CmdResponse ==
  [pipe |-> <<>>, results |-> <<>>, row_index |-> <<>>, row_response |-> <<>>,
   uid_index |-> <<>>, current_row |-> 0, response_count |-> 0, done |-> FALSE]

\* CmdResponse.SetCommandRow
SetCommandRow(l, command_row, p) ==
  [l EXCEPT !.row_index = Put(@, command_row, <<>>),
            !.row_response = Put(@, command_row, <<>>),
            !.pipe = Put(@, command_row, p)]

\* A SetRequest that forgets to add the uid to the row.
SetRequestNoRowIndex(l, command_row, request_uid) ==
  [l EXCEPT !.results = Put(@, request_uid, EmptyResult),
            !.uid_index = Put(@, request_uid, command_row)]

\* CmdResponse.SetRequest
SetRequest(l, command_row, request_uid) ==
  [l EXCEPT !.results = Put(@, request_uid, EmptyResult),
            !.uid_index = Put(@, request_uid, command_row),
            !.row_index[command_row] = Append(@, request_uid)]

\* AddResponse's return value.
AddResponseResult(l, uid) == uid \in DOMAIN l.uid_index

\* An AddResponse that counts the response before checking the uid.
AddResponseCountFirst(l, uid) ==
  IF uid \notin DOMAIN l.uid_index
    THEN [l EXCEPT !.response_count = @ + 1]
    ELSE [l EXCEPT !.results[uid] = uid,
                   !.row_response[l.uid_index[uid]] = Append(@, uid),
                   !.response_count = @ + 1]

\* CmdResponse.AddResponse: the ledger after the call.
AddResponse(l, uid) ==
  IF uid \notin DOMAIN l.uid_index
    THEN l
    ELSE [l EXCEPT !.results[uid] = uid,
                   !.row_response[l.uid_index[uid]] = Append(@, uid),
                   !.response_count = @ + 1]

\* The test GetRow makes on the current row.
RowFull(l, r) == Len(l.row_response[r]) = Len(l.row_index[r])

\* A GetRow that returns the last full row instead of the current one.
GetRowResultLastFull(l) ==
  LET full == {r \in DOMAIN l.row_response : r >= l.current_row /\ RowFull(l, r)}
      last == CHOOSE r \in full : \A q \in full : q <= r
  IN  IF full = {} THEN None ELSE <<l.row_response[last], l.pipe[last]>>

\* CmdResponse.GetRow: the value returned.
GetRowResult(l) ==
  IF l.current_row \notin DOMAIN l.row_response
    THEN None
    ELSE IF RowFull(l, l.current_row)
           THEN <<l.row_response[l.current_row], l.pipe[l.current_row]>>
           ELSE None

\* CmdResponse.GetRow: the ledger after the call.
GetRow(l) ==
  IF l.current_row \notin DOMAIN l.row_response
    THEN IF Cardinality(DOMAIN l.results) = l.response_count
           THEN [l EXCEPT !.done = TRUE]
           ELSE l
    ELSE IF RowFull(l, l.current_row)
           THEN [l EXCEPT !.current_row = @ + 1]
           ELSE l

\* "not GetResponse(uid)": the uid is unknown (None) or its result still ''.
NoResponse(l, uid) ==
  uid \notin DOMAIN l.results \/ l.results[uid] = EmptyResult

(***************************************************************************)
(* TCLI                                                                    *)
(***************************************************************************)

\* The threads: a Callback for each request of each batch, named by the
\* uid of the request, and the dispatching thread.
Callbacks == 1..(MaxBatches * MaxCallbacks)
Dispatcher == MaxBatches * MaxCallbacks + 1
Threads == Callbacks \cup {Dispatcher}

\* The lock starts free (threading.Lock()).
NoThread == 0

\* The threads before the batch.
ThreadsInit ==
  [t \in Threads |->
     [pc |-> IF t = Dispatcher THEN "idle" ELSE "off", obj |-> 0, uid |-> t,
      phase |-> "CmdRequests", batch |-> 1]]

\* The uids of the requests of a batch.
BatchUids(batch) == ((batch - 1) * MaxCallbacks + 1)..(batch * MaxCallbacks)

\* FLAGS.maxtargets when no flag is given.
DEFAULT_MAXTARGETS == 50

\* The filter names of _inclusions and of _exclusions.
InclusionNames == {"targets", "vendor"}
ExclusionNames == {"xtargets", "xvendor"}

\* Inventory.__init__
InventoryInit ==
  [devices |-> <<>>, device_list |-> None,
   inclusions |-> [n \in InclusionNames |-> <<>>],
   exclusions |-> [n \in ExclusionNames |-> <<>>],
   literals_filter |-> <<>>, compiled_filter |-> <<>>,
   devices_loaded |-> TRUE, maxtargets |-> DEFAULT_MAXTARGETS]

Init ==
  /\ cmd_response = CmdResponse
  /\ ledger_id = 0
  /\ UID = 0
  /\ pc = "idle"
  /\ command_list = 0
  /\ device_list = 0
  /\ cmd_row = 0
  /\ host = 0
  /\ requests = <<>>
  /\ inflight = {}
  /\ delivered = {}
  /\ redelivered = 0
  /\ cbpc = "idle"
  /\ cb_uid = 0
  /\ cb_known = FALSE
  /\ row = None
  /\ row_pos = 1
  /\ released = <<>>
  /\ shown = <<>>
  /\ warnings = 0
  /\ timedout = FALSE
  /\ short = FALSE
  /\ cli_parser = <<>>
  /\ parsed = None
  /\ tcli = <<>>
  /\ buffers = <<>>
  /\ ledgers = <<>>
  /\ dry_run = FALSE
  /\ inventory = <<>>
  /\ pending_list = <<>>
  /\ input_line = <<>>
  /\ lines_read = 0
  /\ sent = <<>>
  /\ warned = <<>>
  /\ calls = <<>>
  /\ eof = FALSE
  /\ tilde = <<>>
  /\ uncaught = ""
  /\ inv = InventoryInit
  /\ inv_call = None
  /\ inv_pc = None
  /\ loader = "none"
  /\ lk = [ledger |-> NoThread, session |-> NoThread]
  /\ th = ThreadsInit

\* TCLI.Prompt: a fresh ledger before the next input is read.
Prompt ==
  /\ pc = "idle"
  /\ cmd_response' = CmdResponse
  /\ ledger_id' = 1 - ledger_id
  /\ released' = <<>>
  /\ UNCHANGED <<main_vars, cb_vars, inflight, delivered, redelivered, shown,
                 warnings>>
  /\ UNCHANGED other_vars

\* TCLI.CmdRequests up to the new ledger: a batch of nc commands for nd targets.
StartBatch(nc, nd) ==
  /\ pc = "idle"
  /\ UID + nc * nd <= MaxUid
  /\ command_list' = nc
  /\ device_list' = nd
  /\ requests' = <<>>
  /\ cmd_response' = CmdResponse
  /\ ledger_id' = 1 - ledger_id
  /\ released' = <<>>
  /\ cmd_row' = 0
  /\ host' = 0
  /\ shown' = <<>>
  /\ warnings' = 0
  /\ timedout' = FALSE
  /\ short' = FALSE
  /\ pc' = "row"
  /\ UNCHANGED <<UID, cb_vars, inflight, delivered, redelivered>>
  /\ UNCHANGED other_vars

\* TCLI.CmdRequests: SetCommandRow for the next command.
RegisterRow ==
  /\ pc = "row"
  /\ cmd_row < command_list
  /\ cmd_response' = SetCommandRow(cmd_response, cmd_row, cmd_row)
  /\ host' = 0
  /\ pc' = "req"
  /\ UNCHANGED <<ledger_id, UID, command_list, device_list, cmd_row, requests,
                 timedout, short, cb_vars, inflight, delivered, redelivered,
                 released, shown, warnings>>
  /\ UNCHANGED other_vars

\* TCLI.CmdRequests: CreateCmdRequest and SetRequest for the next target.
RegisterRequest ==
  /\ pc = "req"
  /\ host < device_list
  /\ UID' = UID + 1
  /\ cmd_response' = SetRequest(cmd_response, cmd_row, UID')
  /\ requests' = Append(requests, UID')
  /\ host' = host + 1
  /\ IF host' = device_list
       THEN cmd_row' = cmd_row + 1 /\ pc' = "row"
       ELSE UNCHANGED <<cmd_row, pc>>
  /\ UNCHANGED <<ledger_id, command_list, device_list, timedout, short,
                 cb_vars, inflight, delivered, redelivered, released, shown,
                 warnings>>
  /\ UNCHANGED other_vars

\* TCLI.CmdRequests: SendRequests, then the wait on done begins.
Send ==
  /\ pc = "row"
  /\ cmd_row = command_list
  /\ inflight' = inflight \cup Range(requests)
  /\ pc' = "wait"
  /\ UNCHANGED <<cmd_response, ledger_id, UID, command_list, device_list,
                 cmd_row, host, requests, timedout, short, cb_vars,
                 delivered, redelivered, released, shown, warnings>>
  /\ UNCHANGED other_vars

\* TCLI.CmdRequests: done.wait returned True.
WaitDone ==
  /\ pc = "wait"
  /\ cmd_response.done
  /\ short' = ~(Range(requests) \subseteq delivered)
  /\ pc' = "idle"
  /\ UNCHANGED <<cmd_response, ledger_id, UID, command_list, device_list,
                 cmd_row, host, requests, timedout, cb_vars, inflight,
                 delivered, redelivered, released, shown, warnings>>
  /\ UNCHANGED other_vars

\* A done.wait that has no timeout: it keeps waiting while done is unset.
WaitUnbounded ==
  /\ pc = "wait"
  /\ ~cmd_response.done
  /\ UNCHANGED vars

\* TCLI.CmdRequests: done.wait expired.
WaitTimeout ==
  /\ pc = "wait"
  /\ ~cmd_response.done
  /\ cmd_response' = CmdResponse
  /\ ledger_id' = 1 - ledger_id
  /\ released' = <<>>
  /\ warnings' = warnings + 1
  /\ timedout' = TRUE
  /\ short' = ~(Range(requests) \subseteq delivered)
  /\ pc' = "idle"
  /\ UNCHANGED <<UID, command_list, device_list, cmd_row, host, requests,
                 cb_vars, inflight, delivered, redelivered, shown>>
  /\ UNCHANGED other_vars

\* TCLI.Callback up to AddResponse, for the response to request uid.
CallbackBegin(uid) ==
  /\ cbpc = "idle"
  /\ cb_uid' = uid
  /\ cb_known' = AddResponseResult(cmd_response, uid)
  /\ cmd_response' = AddResponse(cmd_response, uid)
  /\ cbpc' = "getrow"
  /\ UNCHANGED <<ledger_id, main_vars, row, row_pos, released, shown, warnings>>
  /\ UNCHANGED other_vars

\* The accessor invokes the callback of a submitted request: at any moment
\* after SendRequests, in any order, also after the batch's wait has ended and
\* the ledger the request was registered in has been replaced.
Callback(uid) ==
  /\ uid \in inflight
  /\ CallbackBegin(uid)
  /\ inflight' = inflight \ {uid}
  /\ delivered' = delivered \cup {uid}
  /\ UNCHANGED redelivered

\* The accessor invokes the callback of a request a second time (an accessor
\* that breaks its at-most-once contract; Callback and AddResponse accept it).
CallbackAgain(uid) ==
  /\ uid \in delivered
  /\ redelivered < MaxRedeliver
  /\ CallbackBegin(uid)
  /\ redelivered' = redelivered + 1
  /\ UNCHANGED <<inflight, delivered>>

\* TCLI.Callback: row = self.cmd_response.GetRow(), and the loop test.
CallbackGetRow ==
  /\ cbpc = "getrow"
  /\ row' = GetRowResult(cmd_response)
  /\ cmd_response' = GetRow(cmd_response)
  /\ IF row' # None
       THEN /\ cbpc' = "format"
            /\ row_pos' = 1
            /\ released' = Append(released, row'[2])
            /\ UNCHANGED <<cb_uid, cb_known>>
       ELSE /\ cbpc' = "idle"
            /\ cb_uid' = 0
            /\ cb_known' = FALSE
            /\ UNCHANGED <<row_pos, released>>
  /\ UNCHANGED <<ledger_id, main_vars, inflight, delivered, redelivered,
                 shown, warnings>>
  /\ UNCHANGED other_vars

\* TCLI._FormatResponse: one turn of the loop over response_uid_list.
CallbackFormat ==
  /\ cbpc = "format"
  /\ IF row_pos > Len(row[1])
       THEN /\ cbpc' = "getrow"
            /\ UNCHANGED <<row_pos, shown, warnings>>
       ELSE /\ row_pos' = row_pos + 1
            /\ IF NoResponse(cmd_response, row[1][row_pos])
                 THEN warnings' = warnings + 1 /\ UNCHANGED shown
                 ELSE shown' = Append(shown, row[1][row_pos]) /\ UNCHANGED warnings
            /\ UNCHANGED cbpc
  /\ UNCHANGED <<cmd_response, ledger_id, main_vars, cb_uid, cb_known, row,
                 inflight, delivered, redelivered, released>>
  /\ UNCHANGED other_vars

Next ==
  \/ Prompt
  \/ \E nc \in 1..MaxCmds, nd \in 1..MaxDevs : StartBatch(nc, nd)
  \/ RegisterRow
  \/ RegisterRequest
  \/ Send
  \/ WaitDone
  \/ WaitTimeout
  \/ \E uid \in 1..MaxUid : Callback(uid)
  \/ \E uid \in 1..MaxUid : CallbackAgain(uid)
  \/ CallbackGetRow
  \/ CallbackFormat

Spec == Init /\ [][Next]_vars

\* The dispatching thread keeps running: it takes no TCLI._lock, the ledger
\* lock is held by others only for the length of one ledger method, and
\* done.wait(self.timeout + 5) returns when done is set or the time is up.
\* Nothing is assumed of the accessor: no callback has to happen.
LiveSpec ==
  /\ Spec
  /\ WF_vars(RegisterRow)
  /\ WF_vars(RegisterRequest)
  /\ WF_vars(Send)
  /\ WF_vars(WaitDone \/ WaitTimeout)

(***************************************************************************)
(* CommandParser                                                           *)
(***************************************************************************)

\* The append marker, a token of its own right after the command name.
APPEND == "+"

\* Argument tokens: a plain word, a word with non-alphanumeric characters,
\* a quoted block with a space in it, and a block whose quote never closes.
WordToken == "hoo"
RegexpToken == "^.*"
QuotedToken == "'a b'"
OpenQuoteToken == "'bad"
ArgTokens == {WordToken, RegexpToken, QuotedToken, OpenQuoteToken}

\* shlex.split on one token: the quotes of a quoted block are removed.
Unquote(token) == IF token = QuotedToken THEN "a b" ELSE token

\* shlex.split raises ValueError (no closing quotation).
ShlexError(line) == \E i \in 1..Len(line) : line[i] = OpenQuoteToken

\* shlex.split
ShlexSplit(line) == [i \in 1..Len(line) |-> Unquote(line[i])]

\* re.search(r'\W', arg)
NonWord(arg) == arg \in {RegexpToken, "a b", OpenQuoteToken, "-15"}

\* The keyword defaults of RegisterCommand.
DefaultAttr ==
  [short_name |-> "", min_args |-> 0, max_args |-> 1, append |-> FALSE,
   inline |-> FALSE, raw_arg |-> FALSE, regexp |-> FALSE, toggle |-> FALSE,
   handler |-> None]

\* CommandParser.RegisterCommand
RegisterCommand(parser, command_name, attr) == Put(parser, command_name, attr)

\* CommandParser.UnRegisterCommand
UnRegisterCommand(parser, command_name) ==
  [c \in DOMAIN parser \ {command_name} |-> parser[c]]

\* An InlineOnly that unregisters nothing.
InlineOnlyKeepsAll(parser) == parser

\* CommandParser.InlineOnly
InlineOnly(parser) ==
  [c \in {n \in DOMAIN parser : parser[n].inline} |-> parser[c]]

\* CommandParser._CommandExpand: (command_name, line, append).
CommandExpand(parser, line) ==
  LET expanded == {c \in DOMAIN parser : parser[c].short_name = line[1]}
      command_name ==
        IF expanded # {} THEN CHOOSE c \in expanded : TRUE ELSE line[1]
      rest == Tail(line)
      append == rest # <<>> /\ rest[1] = APPEND
  IN  [command_name |-> command_name,
       line |-> IF append THEN Tail(rest) ELSE rest,
       append |-> append]

\* ParseCommandLine raises ParseError.
ParseError ==
  [ok |-> FALSE, command_name |-> "", arguments |-> <<>>, append |-> FALSE]

\* ParseCommandLine returns (command_name, arguments, append).
Parsed(command_name, arguments, append) ==
  [ok |-> TRUE, command_name |-> command_name, arguments |-> arguments,
   append |-> append]

\* CommandParser.ParseCommandLine
ParseCommandLine(parser, line) ==
  IF line = <<>> THEN ParseError
  ELSE
    LET e == CommandExpand(parser, line)
    IN  IF e.command_name \notin DOMAIN parser THEN ParseError
        ELSE
          LET c == parser[e.command_name]
              arguments == ShlexSplit(e.line)
          IN  IF c.raw_arg THEN Parsed(e.command_name, <<e.line>>, e.append)
              ELSE IF e.append /\ ~c.append THEN ParseError
              ELSE IF ShlexError(e.line) THEN ParseError
              ELSE IF \/ Len(arguments) < c.min_args
                      \/ Len(arguments) > c.max_args THEN ParseError
              ELSE IF /\ ~c.regexp
                      /\ ~c.raw_arg
                      /\ \E i \in 1..Len(arguments) : NonWord(arguments[i])
                     THEN ParseError
              ELSE Parsed(e.command_name, arguments, e.append)

\* The characters of a command given to ExtractPipe: a stands for any
\* character that is no quote, no pipe and no white space.
SGL_QUOTE == "'"
DBL_QUOTE == "\""
QUOTES == {SGL_QUOTE, DBL_QUOTE}
PIPE == "|"
SPACE == " "

\* ''.join(token_list)
RECURSIVE Concat(_)
Concat(token_list) ==
  IF token_list = <<>> THEN <<>>
  ELSE Head(token_list) \o Concat(Tail(token_list))

\* str.strip()
RECURSIVE Strip(_)
Strip(s) ==
  IF s = <<>> THEN s
  ELSE IF Head(s) = SPACE THEN Strip(Tail(s))
  ELSE IF s[Len(s)] = SPACE THEN Strip(SubSeq(s, 1, Len(s) - 1))
  ELSE s

\* The last position of the run of characters that starts at i and is made
\* of characters of chars (member = TRUE) or of others (member = FALSE).
RECURSIVE RunEnd(_, _, _, _)
RunEnd(s, i, chars, member) ==
  IF i < Len(s) /\ ((s[i + 1] \in chars) = member)
    THEN RunEnd(s, i + 1, chars, member)
    ELSE i

\* ExtractPipe: re.findall of unquoted_str|dbl_quoted_str|sgl_quoted_str on
\* command from position i.  Each match is one token; a quote with no
\* closing quote matches none of the three and is passed over.
RECURSIVE FindQuoted(_, _)

\* The match command[i..j] and the matches that follow it.
FindQuotedNext(command, i, j) ==
  <<SubSeq(command, i, j)>> \o FindQuoted(command, j + 1)

FindQuoted(command, i) ==
  IF i > Len(command) THEN <<>>
  ELSE IF command[i] \notin QUOTES
    THEN FindQuotedNext(command, i, RunEnd(command, i, QUOTES, FALSE))
  ELSE IF \E j \in (i + 1)..Len(command) : command[j] = command[i]
    THEN FindQuotedNext(command, i,
                        CHOOSE k \in (i + 1)..Len(command) :
                          /\ command[k] = command[i]
                          /\ \A m \in (i + 1)..(k - 1) :
                               command[m] # command[i])
  ELSE FindQuoted(command, i + 1)

\* ExtractPipe: re.findall of pipes|not_pipes on an unquoted token.
RECURSIVE FindPipes(_, _)

\* The match unquoted_str[i..j] and the matches that follow it.
FindPipesNext(unquoted_str, i, j) ==
  <<SubSeq(unquoted_str, i, j)>> \o FindPipes(unquoted_str, j + 1)

FindPipes(unquoted_str, i) ==
  IF i > Len(unquoted_str) THEN <<>>
  ELSE FindPipesNext(unquoted_str, i,
                     RunEnd(unquoted_str, i, {PIPE}, unquoted_str[i] = PIPE))

\* ExtractPipe: new_token_list, the unquoted tokens decomposed further.
RECURSIVE NewTokenList(_)
NewTokenList(token_list) ==
  IF token_list = <<>> THEN <<>>
  ELSE (IF Head(token_list)[1] \in QUOTES THEN <<Head(token_list)>>
        ELSE FindPipes(Head(token_list), 1))
         \o NewTokenList(Tail(token_list))

\* The tokens of ExtractPipe.
DblPipeToken == <<PIPE, PIPE>>
SglPipeToken == <<PIPE>>

\* A loop that takes nothing off the list: every '||' is then a candidate.
SinglePipesKept(new_token_list) == 0

\* ExtractPipe: the while loop.  Its result is the number of tokens it moves
\* to lhs_str, up to and with the last single pipe.
SinglePipesConsumed(new_token_list) ==
  IF \E i \in 1..Len(new_token_list) : new_token_list[i] = SglPipeToken
    THEN CHOOSE i \in 1..Len(new_token_list) :
           /\ new_token_list[i] = SglPipeToken
           /\ \A j \in (i + 1)..Len(new_token_list) :
                new_token_list[j] # SglPipeToken
    ELSE 0

\* ExtractPipe: what follows the while loop, n the tokens already in lhs_str.
SplitAtDblPipe(new_token_list, n) ==
  IF \E i \in (n + 1)..Len(new_token_list) : new_token_list[i] = DblPipeToken
    THEN LET pipe_index ==
               CHOOSE i \in (n + 1)..Len(new_token_list) :
                 /\ new_token_list[i] = DblPipeToken
                 /\ \A j \in (n + 1)..(i - 1) :
                      new_token_list[j] # DblPipeToken
         IN  <<Concat(SubSeq(new_token_list, 1, pipe_index - 1)),
               Concat([i \in 1..(Len(new_token_list) - pipe_index) |->
                         IF new_token_list[pipe_index + i] = DblPipeToken
                           THEN SglPipeToken
                           ELSE new_token_list[pipe_index + i]])>>
    ELSE <<Concat(new_token_list), <<>>>>

\* ExtractPipe: the two loops on new_token_list.
SplitTokens(new_token_list) ==
  SplitAtDblPipe(new_token_list, SinglePipesConsumed(new_token_list))

\* ExtractPipe: lhs_str.strip() and the local pipe, stripped.
StripBoth(x) == <<Strip(x[1]), Strip(x[2])>>

\* CommandParser.ExtractPipe: (text for the device, local pipe).
ExtractPipe(command) ==
  StripBoth(SplitTokens(NewTokenList(FindQuoted(command, 1))))

\* The commands the registry is exercised with.  boo is registered with any
\* combination of the attributes that ParseCommandLine and InlineOnly read;
\* hoo is the command of command_parser_test.py that takes one or two
\* arguments, regular expressions and the append marker.
CommandNames == {"boo", "hoo"}
Descriptors(command_name) ==
  IF command_name = "boo"
    THEN {[DefaultAttr EXCEPT !.short_name = "B", !.min_args = lo,
                              !.max_args = hi, !.append = a, !.inline = i,
                              !.raw_arg = r, !.regexp = x] :
            lo \in 0..1, hi \in 0..2, a \in BOOLEAN, i \in BOOLEAN,
            r \in BOOLEAN, x \in BOOLEAN}
    ELSE {[DefaultAttr EXCEPT !.short_name = "H", !.min_args = 1,
                              !.max_args = 2, !.append = TRUE,
                              !.regexp = TRUE]}

\* The lines: a command name or alias, with or without the append marker,
\* then up to MaxLineArgs arguments, words but for the last one.
Words(n) == [i \in 1..n |-> WordToken]
ArgLists ==
  {<<>>} \cup {Words(n - 1) \o <<t>> : n \in 1..MaxLineArgs, t \in ArgTokens}
ParserLines ==
  {<<>>} \cup {<<n>> \o m \o a : n \in {"boo", "B", "hoo", "H"},
                                 m \in {<<>>, <<APPEND>>}, a \in ArgLists}

\* A call of RegisterCommand, while the registry is being built.
DoRegisterCommand(command_name, attr) ==
  /\ parsed = None
  /\ cli_parser' = RegisterCommand(cli_parser, command_name, attr)
  /\ parsed' = None
  /\ UNCHANGED <<dispatch_vars, session_vars, aside_vars>>

\* A call of ParseCommandLine on the registry as it stands (the call changes
\* nothing, so one call shows what any later call would return).
DoParseCommandLine(line) ==
  /\ parsed = None
  /\ parsed' = [op |-> "ParseCommandLine", line |-> line,
                result |-> ParseCommandLine(cli_parser, line)]
  /\ UNCHANGED <<cli_parser, dispatch_vars, session_vars, aside_vars>>

ParserNext ==
  \/ \E command_name \in CommandNames :
       \E attr \in Descriptors(command_name) :
         DoRegisterCommand(command_name, attr)
  \/ \E line \in ParserLines : DoParseCommandLine(line)

ParserSpec == Init /\ [][ParserNext]_vars

\* The commands given to ExtractPipe: up to MaxPieces pieces, each a
\* character, a double pipe or a space.
PipePieces ==
  {<<"a">>, <<SPACE>>, SglPipeToken, DblPipeToken, <<SGL_QUOTE>>, <<DBL_QUOTE>>}
PipeLines ==
  UNION {{Concat(f) : f \in [1..n -> PipePieces]} : n \in 0..MaxPieces}

\* A call of ExtractPipe.
DoExtractPipe(command) ==
  /\ parsed' = [op |-> "ExtractPipe", line |-> command,
                result |-> ExtractPipe(command)]
  /\ UNCHANGED <<cli_parser, dispatch_vars, session_vars, aside_vars>>

\* One call: the function keeps no state, so a second call shows nothing
\* the first did not.
PipeNext ==
  /\ parsed = None
  /\ \E command \in PipeLines : DoExtractPipe(command)

PipeSpec == Init /\ [][PipeNext]_vars

(***************************************************************************)
(* TCLI session: ParseCommands, TildeCmd, inline overrides, CmdRequests    *)
(***************************************************************************)

\* Tokens of an input line.  INLINE is ' //', the separator that
\* _ExtractInlineCommands splits on; GluedInline is a word holding '//'
\* with no space before it.
TILDE == "/"
INLINE == " //"
GluedInline == "flash://f"
DBL_PIPE == "||"
SGL_PIPE == "|"

\* A buffer name that is None.
NoBuffer == ""

DISPLAY_FORMATS == {"raw", "csv", "tbl", "nvp"}
MODE_FORMATS == {"cli", "gated", "http", "shell"}
COLOR_SCHEMES == {"light", "dark", "gross"}
\* The filters clitable.CliTable can load from the template directory.
FILTERS == {"default_index", "f2"}

\* What is printed, as lines of one token.
SafeModeMsg == <<"Safe mode on, command ignored.">>
TimeoutMsg == <<"Timeout: timer exceeded while waiting for responses.">>
ParseErrorMsg == <<"ParseError">>
ValueErrorMsg == <<"ValueError">>

\* CmdRequests calls one input line can make: the flush of the commands
\* collected so far, then the call of '/command' or of the overlay.
MaxCalls == 2

\* TCLI.RegisterCommands: the base commands, handlers bound to self.
TCLICommands(self) ==
  LET H(method) == [self |-> self, method |-> method]
      D == DefaultAttr
  IN  [buffer |-> [D EXCEPT !.min_args = 1, !.handler = H("_CmdBuffer")],
       bufferlist |-> [D EXCEPT !.max_args = 0,
                                !.handler = H("_CmdBufferList")],
       clear |-> [D EXCEPT !.min_args = 1, !.handler = H("_CmdClear")],
       color |-> [D EXCEPT !.inline = TRUE, !.toggle = TRUE,
                           !.handler = H("_CmdToggleValue")],
       color_scheme |-> [D EXCEPT !.inline = TRUE,
                                  !.handler = H("_CmdColorScheme")],
       command |-> [D EXCEPT !.short_name = "C", !.min_args = 1,
                             !.raw_arg = TRUE, !.handler = H("_CmdCommand")],
       defaults |-> [D EXCEPT !.handler = H("_CmdDefaults")],
       display |-> [D EXCEPT !.short_name = "D", !.inline = TRUE,
                             !.handler = H("_CmdDisplay")],
       env |-> [D EXCEPT !.max_args = 0, !.handler = H("_CmdEnv")],
       exec |-> [D EXCEPT !.short_name = "!", !.min_args = 1,
                          !.raw_arg = TRUE, !.handler = H("_CmdExecShell")],
       exit |-> [D EXCEPT !.inline = TRUE, !.max_args = 0,
                          !.handler = H("_CmdExit")],
       expandtargets |-> [D EXCEPT !.max_args = 0,
                                   !.handler = H("_CmdExpandTargets")],
       filter |-> [D EXCEPT !.short_name = "F", !.inline = TRUE,
                            !.handler = H("_CmdFilter")],
       help |-> [D EXCEPT !.max_args = 0, !.inline = TRUE,
                          !.handler = H("_CmdHelp")],
       inventory |-> [D EXCEPT !.short_name = "V", !.max_args = 0,
                               !.handler = H("_CmdInventory")],
       linewrap |-> [D EXCEPT !.inline = TRUE, !.toggle = TRUE,
                              !.handler = H("_CmdToggleValue")],
       log |-> [D EXCEPT !.append = TRUE, !.inline = TRUE,
                         !.handler = H("_CmdLogging")],
       logall |-> [D EXCEPT !.append = TRUE, !.inline = TRUE,
                            !.handler = H("_CmdLogging")],
       logstop |-> [D EXCEPT !.inline = TRUE, !.min_args = 1,
                             !.handler = H("_CmdLogStop")],
       mode |-> [D EXCEPT !.short_name = "M", !.inline = TRUE,
                          !.handler = H("_CmdMode")],
       play |-> [D EXCEPT !.short_name = "P", !.min_args = 1,
                          !.handler = H("_CmdPlay")],
       quit |-> [D EXCEPT !.inline = TRUE, !.max_args = 0,
                          !.handler = H("_CmdExit")],
       read |-> [D EXCEPT !.append = TRUE, !.min_args = 1, !.max_args = 2,
                          !.handler = H("_CmdRead")],
       record |-> [D EXCEPT !.append = TRUE, !.inline = TRUE,
                            !.handler = H("_CmdLogging")],
       recordall |-> [D EXCEPT !.append = TRUE, !.inline = TRUE,
                               !.handler = H("_CmdLogging")],
       recordstop |-> [D EXCEPT !.inline = TRUE, !.min_args = 1,
                                !.handler = H("_CmdLogStop")],
       safemode |-> [D EXCEPT !.short_name = "S", !.inline = TRUE,
                              !.toggle = TRUE,
                              !.handler = H("_CmdToggleValue")],
       timeout |-> [D EXCEPT !.handler = H("_CmdTimeout")],
       write |-> [D EXCEPT !.append = TRUE, !.min_args = 1, !.max_args = 2,
                           !.handler = H("_CmdWrite")],
       verbose |-> [D EXCEPT !.inline = TRUE, !.toggle = TRUE,
                             !.handler = H("_CmdToggleValue")],
       vi |-> [D EXCEPT !.min_args = 1, !.handler = H("_CmdEditor")]]

\* Inventory.RegisterCommands: the commands common to any inventory source,
\* handlers bound to the inventory.
InventoryCommands ==
  LET H(method) == [self |-> 0, method |-> method]
      D == DefaultAttr
  IN  [attributes |-> [D EXCEPT !.max_args = 2, !.append = TRUE,
                                !.regexp = TRUE, !.inline = TRUE,
                                !.short_name = "A",
                                !.handler = H("_AttributeFilter")],
       targets |-> [D EXCEPT !.append = TRUE, !.regexp = TRUE,
                             !.inline = TRUE, !.short_name = "T",
                             !.handler = H("_CmdFilter")],
       maxtargets |-> [D EXCEPT !.handler = H("_CmdMaxTargets")],
       xattributes |-> [D EXCEPT !.max_args = 2, !.append = TRUE,
                                 !.regexp = TRUE, !.inline = TRUE,
                                 !.short_name = "E",
                                 !.handler = H("_AttributeFilter")],
       xtargets |-> [D EXCEPT !.append = TRUE, !.regexp = TRUE,
                              !.inline = TRUE, !.short_name = "X",
                              !.handler = H("_CmdFilter")]]

\* TCLI.RegisterCommands(cli_parser): every command is registered, a command
\* already there is replaced.
RegisterCommands(self, parser) == TCLICommands(self) @@ parser

\* TCLI.__init__: b and l are the TextBuffer and the CmdResponse it creates.
TCLI(b, l) ==
  [buffers |-> b, cmd_response |-> l, cli_parser |-> <<>>,
   playback |-> NoBuffer, safemode |-> FALSE, verbose |-> FALSE,
   color |-> FALSE, color_scheme |-> "", display |-> "", filter |-> "",
   linewrap |-> FALSE, mode |-> "", timeout |-> 0,
   log |-> NoBuffer, logall |-> NoBuffer, record |-> NoBuffer,
   recordall |-> NoBuffer]

\* TCLI.SetDefaults with no flag given: DEFAULT_CMDS.
SetDefaults(obj) ==
  [obj EXCEPT !.color = TRUE, !.color_scheme = "light", !.display = "raw",
              !.filter = "default_index", !.linewrap = FALSE,
              !.mode = "cli", !.timeout = 45]

\* sep.join(lines), the separator a token of its own.
RECURSIVE Join(_, _)
Join(sep, lines) ==
  IF lines = <<>> THEN <<>>
  ELSE IF Len(lines) = 1 THEN lines[1]
  ELSE lines[1] \o <<sep>> \o Join(sep, Tail(lines))

\* TextBuffer.Append; text is a sequence of lines, '' is no line or one
\* blank line.
TextBufferAppend(text_buffer, name, text) ==
  IF name = NoBuffer \/ text = <<>> \/ text = << <<>> >> THEN text_buffer
  ELSE Put(text_buffer, name,
           (IF name \in DOMAIN text_buffer THEN text_buffer[name] ELSE <<>>)
             \o text)

\* TextBuffer.Clear
TextBufferClear(text_buffer, name) ==
  [n \in DOMAIN text_buffer \ {name} |-> text_buffer[n]]

\* self.buffers.Append(name, text), in the world w.
BuffersAppend(w, self, name, text) ==
  [w EXCEPT !.buffers[w.tcli[self].buffers] = TextBufferAppend(@, name, text)]

\* TCLI._PrintWarning
PrintWarning(w, self, msg) ==
  IF msg = <<>> THEN w
  ELSE [BuffersAppend(w, self, w.tcli[self].logall, <<msg>>)
          EXCEPT !.warned = Append(@, msg)]

\* TCLI._PrintOutput
PrintOutput(w, self, msg) ==
  IF msg = <<>> THEN w
  ELSE BuffersAppend(BuffersAppend(w, self, w.tcli[self].log, <<msg>>),
                     self, w.tcli[self].logall, <<msg>>)

\* TCLI._PrintSystem
PrintSystem(w, self, msg) ==
  IF msg = <<>> THEN w
  ELSE BuffersAppend(w, self, w.tcli[self].logall, <<msg>>)

\* TCLI._ExtractPipe scanning right to left; tokens i..1 remain.  cmd_str
\* stands for tmp_str + cmd_str, which the code only ever uses joined.
RECURSIVE ExtractPipeFrom(_, _, _, _, _)
ExtractPipeFrom(command, i, found_single_pipe, cmd_str, dbl_pipe_str) ==
  IF i = 0 THEN <<cmd_str, dbl_pipe_str>>
  ELSE IF command[i] = DBL_PIPE /\ ~found_single_pipe
    THEN ExtractPipeFrom(command, i - 1, FALSE, <<>>,
                         <<SGL_PIPE>> \o cmd_str \o dbl_pipe_str)
    ELSE ExtractPipeFrom(command, i - 1,
                         found_single_pipe \/ command[i] = SGL_PIPE,
                         <<command[i]>> \o cmd_str, dbl_pipe_str)

\* An _ExtractPipe that splits nothing off.
TCLI_ExtractPipeKeepsAll(command) == <<command, <<>>>>

\* TCLI._ExtractPipe: (text for the device, local pipe).
TCLI_ExtractPipe(command) ==
  ExtractPipeFrom(command, Len(command), FALSE, <<>>, <<>>)

\* A Request.__init__ that leaves the class counter as it is.
RequestUidKept(uid) == uid

\* Inventory.Request.__init__: Request.UID += 1, and that is the uid.
RequestUid(uid) == uid + 1

\* Inventory.CreateCmdRequest with the uid it allocates.
CreateCmdRequest(uid, target, command, mode) ==
  [uid |-> uid, target |-> target, command |-> command, mode |-> mode]

\* TCLI.CmdRequests: the loop over the commands and, inside it, over the
\* hosts; st is the ledger, the requests and the uid counter; host = 0 is
\* the start of a row.
RECURSIVE RegisterRequests(_, _, _, _, _, _)
RegisterRequests(st, hosts, commands, mode, row_id, host_id) ==
  IF row_id >= Len(commands) THEN st
  ELSE
    LET x == TCLI_ExtractPipe(commands[row_id + 1])
    IN  IF host_id = 0
          THEN RegisterRequests(
                 [st EXCEPT !.ledger = SetCommandRow(@, row_id, x[2])],
                 hosts, commands, mode, row_id, 1)
        ELSE IF host_id > Len(hosts)
          THEN RegisterRequests(st, hosts, commands, mode, row_id + 1, 0)
        ELSE
          LET req == CreateCmdRequest(RequestUid(st.UID), hosts[host_id], x[1],
                                      mode)
          IN  RegisterRequests(
                [ledger |-> SetRequest(st.ledger, row_id, req.uid),
                 requests |-> Append(st.requests, req),
                 UID |-> req.uid],
                hosts, commands, mode, row_id, host_id + 1)

\* done.wait of the call about to be made expires.
Expired(w) == Len(w.calls) + 1 \in w.expire

\* CmdRequests returns before the new ledger, and why ("" when it does not).
\* The check of dry-run is left out.
ShortCircuitNoDryRun(w, self, hosts, commands, explicit_cmd) ==
  IF hosts = <<>> \/ commands = <<>> THEN "empty"
  ELSE IF ~explicit_cmd /\ w.tcli[self].safemode THEN "safemode"
  ELSE ""

\* CmdRequests returns before the new ledger, and why ("" when it does not).
ShortCircuit(w, self, hosts, commands, explicit_cmd) ==
  IF hosts = <<>> \/ commands = <<>> THEN "empty"
  ELSE IF ~explicit_cmd /\ w.tcli[self].safemode THEN "safemode"
  ELSE IF w.dry_run THEN "dry_run"
  ELSE ""

\* A CmdRequests that appends to the buffers only what it goes on to send.
RecordCommandsIfSent(w, self, hosts, commands, explicit_cmd) ==
  IF ShortCircuit(w, self, hosts, commands, explicit_cmd) # "" THEN w
  ELSE BuffersAppend(BuffersAppend(BuffersAppend(BuffersAppend(
         w, self, w.tcli[self].record, commands),
            self, w.tcli[self].recordall, commands),
            self, w.tcli[self].log, commands),
            self, w.tcli[self].logall, commands)

\* TCLI.CmdRequests: the commands go to the four buffers.
RecordCommands(w, self, hosts, commands, explicit_cmd) ==
  BuffersAppend(BuffersAppend(BuffersAppend(BuffersAppend(
    w, self, w.tcli[self].record, commands),
       self, w.tcli[self].recordall, commands),
       self, w.tcli[self].log, commands),
       self, w.tcli[self].logall, commands)

\* TCLI.CmdRequests.  The call is entered in w.calls with what it was given,
\* the buffers before and after the commands were appended, the ledger as
\* it was registered and the requests given to SendRequests.  The ledger
\* kept in w.ledgers is the ledger as registered: the callbacks that fill
\* it are the subject of Spec.
CmdRequests(w, self, hosts, commands, explicit_cmd) ==
  LET me == w.tcli[self]
      w1 == RecordCommands(w, self, hosts, commands, explicit_cmd)
      why == ShortCircuit(w1, self, hosts, commands, explicit_cmd)
      st == RegisterRequests(
              [ledger |-> CmdResponse, requests |-> <<>>, UID |-> w1.UID],
              hosts, commands, me.mode, 0, 0)
      new == Len(w1.ledgers) + 1
      w2 == [w1 EXCEPT !.ledgers = Append(@, st.ledger),
                       !.tcli[self].cmd_response = new,
                       !.UID = st.UID,
                       !.sent = @ \o st.requests]
      w3 == PrintWarning(
              [w2 EXCEPT !.ledgers = Append(@, CmdResponse),
                         !.tcli[self].cmd_response = new + 1],
              self, TimeoutMsg)
      w4 == PrintOutput(PrintOutput(PrintOutput(PrintOutput(
              w1, self, <<"Send Commands: ">>),
                  self, <<"  ">> \o Join("\r  ", commands)),
                  self, <<"To Targets: ">>),
                  self, <<"  ">> \o Join(",", [i \in 1..Len(hosts) |->
                                                <<hosts[i]>>]))
      out == IF why = "empty" THEN w1
             ELSE IF why = "safemode" THEN PrintWarning(w1, self, SafeModeMsg)
             ELSE IF why = "dry_run" THEN w4
             ELSE IF Expired(w) THEN w3
             ELSE w2
      call == [self |-> self, device_list |-> hosts,
               command_list |-> commands, explicit_cmd |-> explicit_cmd,
               safemode |-> me.safemode, dry_run |-> w.dry_run,
               names |-> <<me.record, me.recordall, me.log, me.logall>>,
               before |-> w.buffers[me.buffers],
               logged |-> w1.buffers[me.buffers],
               cmd_response |-> me.cmd_response,
               outcome |-> IF why # "" THEN why
                           ELSE IF Expired(w) THEN "timeout" ELSE "sent",
               registered |-> IF why # "" THEN CmdResponse ELSE st.ledger,
               submitted |-> IF why # "" THEN <<>> ELSE st.requests,
               returned |-> out.tcli[self].cmd_response,
               created |-> Len(out.ledgers) - Len(w.ledgers)]
  IN  [out EXCEPT !.calls = Append(@, call)]

\* What a handler gives back: the world, the exception raised ("" for
\* none) and the text returned.
Ret(w) == [w |-> w, raised |-> "", text |-> <<>>]
Raise(w, e) == [w |-> w, raised |-> e, text |-> <<>>]
Return(w, text) == [w |-> w, raised |-> "", text |-> text]

\* setattr(self, attr, value)
SetAttr(w, self, attr, value) == [w EXCEPT !.tcli[self][attr] = value]

\* TCLI._CmdToggleValue
CmdToggleValue(w, self, command, args, append) ==
  IF args # <<>>
    THEN IF args[1] \in {"on", "true"}
           THEN Ret(SetAttr(w, self, command, TRUE))
         ELSE IF args[1] \in {"off", "false"}
           THEN Ret(SetAttr(w, self, command, FALSE))
         ELSE Raise(w, "ValueError")
    ELSE Ret(SetAttr(w, self, command, ~w.tcli[self][command]))

\* TCLI._CmdColorScheme
CmdColorScheme(w, self, command, args, append) ==
  IF args = <<>> THEN Return(w, <<w.tcli[self].color_scheme>>)
  ELSE IF ~w.tcli[self].color THEN Ret(w)
  ELSE IF args[1] \in COLOR_SCHEMES
    THEN Ret(SetAttr(w, self, "color_scheme", args[1]))
  ELSE Raise(w, "ValueError")

\* TCLI._CmdDisplay
CmdDisplay(w, self, command, args, append) ==
  IF args = <<>> THEN Return(w, <<"Display:", w.tcli[self].display>>)
  ELSE IF args[1] \in DISPLAY_FORMATS
    THEN Ret(SetAttr(w, self, "display", args[1]))
  ELSE Raise(w, "ValueError")

\* TCLI._CmdFilter
CmdFilter(w, self, command, args, append) ==
  IF args = <<>> THEN Return(w, <<"Filter:", w.tcli[self].filter>>)
  ELSE IF args[1] \in FILTERS
    THEN Ret(SetAttr(w, self, "filter", args[1]))
  ELSE Raise(w, "ValueError")

\* TCLI._CmdMode
CmdMode(w, self, command, args, append) ==
  IF args = <<>> THEN Return(w, <<"Mode:", w.tcli[self].mode>>)
  ELSE IF args[1] \in MODE_FORMATS
    THEN Ret(SetAttr(w, self, "mode", args[1]))
  ELSE Raise(w, "ValueError")

\* int(args[0]) for the arguments used here; 0 where int() raises.
TimeoutValue(arg) == IF arg = "5" THEN 5 ELSE 0

\* A _CmdTimeout that takes whatever int() gives.
CmdTimeoutUnchecked(w, self, command, args, append) ==
  IF args = <<>> THEN Return(w, <<"Timeout:">>)
  ELSE Ret(SetAttr(w, self, "timeout", TimeoutValue(args[1])))

\* TCLI._CmdTimeout
CmdTimeout(w, self, command, args, append) ==
  IF args = <<>> THEN Return(w, <<"Timeout:">>)
  ELSE IF TimeoutValue(args[1]) > 0
    THEN Ret(SetAttr(w, self, "timeout", TimeoutValue(args[1])))
  ELSE Raise(w, "ValueError")

\* A _BufferInUse that finds no buffer in use.
BufferInUseNever(w, self, buffername) == <<>>

\* TCLI._BufferInUse: the warning printed, <<>> when the buffer is free.
BufferInUse(w, self, buffername) ==
  LET me == w.tcli[self]
  IN  IF buffername \in {me.record, me.recordall, me.log, me.logall}
        THEN <<"Buffer:", buffername, "already open for writing.">>
      ELSE IF buffername = me.playback
        THEN <<"Buffer:", buffername, "already open by 'play' command.">>
      ELSE <<>>

\* TCLI._CmdLogging
CmdLogging(w, self, command, args, append) ==
  IF args = <<>> THEN Return(w, <<command, "buffer is", w.tcli[self][command]>>)
  ELSE IF BufferInUse(w, self, args[1]) # <<>>
    THEN Ret(PrintWarning(w, self, BufferInUse(w, self, args[1])))
  ELSE
    LET w1 == IF append THEN w
              ELSE [w EXCEPT !.buffers[w.tcli[self].buffers] =
                               TextBufferClear(@, args[1])]
    IN  Ret(SetAttr(w1, self, command, args[1]))

\* TCLI._CmdLogStop
CmdLogStop(w, self, command, args, append) ==
  LET me == w.tcli[self]
  IN  IF me.record = args[1] THEN Ret(SetAttr(w, self, "record", NoBuffer))
      ELSE IF me.recordall = args[1]
        THEN Ret(SetAttr(w, self, "recordall", NoBuffer))
      ELSE IF me.log = args[1] THEN Ret(SetAttr(w, self, "log", NoBuffer))
      ELSE IF me.logall = args[1]
        THEN Ret(SetAttr(w, self, "logall", NoBuffer))
      ELSE Raise(w, "ValueError")

\* TCLI._CmdExit
CmdExit(w, self, command, args, append) == Raise(w, "EOFError")

\* TCLI._CmdCommand
CmdCommand(w, self, command, args, append) ==
  Ret(CmdRequests(w, self, w.device_list, <<args[1]>>, TRUE))

\* TCLI.ParseCommands on a sequence of lines, the commands collected so far
\* in collected (defined below; _CmdPlay calls it).
RECURSIVE ParseCommands(_, _, _, _)

\* The files _CmdRead can open, each with the lines it holds; open() of
\* any other name raises IOError.
Files ==
  [f1 |-> << <<TILDE, "play", "b1">>, <<TILDE, "play", "b2">> >>,
   f2 |-> << <<TILDE, "record", "b1">>, <<"show">> >>]

\* sys.stdin.readline() in _CmdRead
StdinLine == "f1"

\* The message of the ValueError of _CmdPlay.
RecursivePlayMsg == <<"Recursive call of \"play\" rejected.">>

\* TCLI._CmdHelp: the loop body calls cli_parser.GetCommand, which
\* CommandParser does not have; the registry is never empty.
CmdHelp(w, self, command, args, append) == Raise(w, "AttributeError")

\* TCLI._CmdRead after the file name is known, w0 the world then.
CmdReadFile(w0, self, args, append, filename) ==
  IF filename \notin DOMAIN Files THEN Raise(w0, "ValueError")
  ELSE Return(
         BuffersAppend(
           IF append
             THEN [w0 EXCEPT !.buffers[w0.tcli[self].buffers] =
                               TextBufferClear(@, args[1])]
             ELSE w0,
           self, args[1], Files[filename]),
         <<"lines read.">>)

\* TCLI._CmdRead
CmdRead(w, self, command, args, append) ==
  IF Len(args) > 1 THEN CmdReadFile(w, self, args, append, args[2])
  ELSE CmdReadFile(PrintSystem(w, self, <<"Enter filename to read from: ">>),
                   self, args, append, StdinLine)

\* A _CmdPlay that leaves self.playback as it is after the play.
PlayDoneKeepsMarker(w, self) == w

\* TCLI._CmdPlay: self.playback = None
PlayDone(w, self) == SetAttr(w, self, "playback", NoBuffer)

\* TCLI._CmdPlay after ParseCommands, w what it left: an exception that
\* left ParseCommands leaves _CmdPlay too, before the marker is cleared.
PlayReturn(w, self) ==
  IF w.eof THEN Raise(w, "EOFError")
  ELSE IF w.uncaught # "" THEN Raise(w, w.uncaught)
  ELSE Ret(PlayDone(w, self))

\* TCLI._CmdPlay.  GetBuffer of a buffer that does not exist is None, and
\* ParseCommands(None) raises AttributeError at commands.split.
CmdPlay(w, self, command, args, append) ==
  IF w.tcli[self].playback # NoBuffer
    THEN [Raise(w, "ValueError") EXCEPT !.text = RecursivePlayMsg]
  ELSE IF BufferInUse(w, self, args[1]) # <<>>
    THEN Ret(PrintWarning(w, self, BufferInUse(w, self, args[1])))
  ELSE IF args[1] \notin DOMAIN w.buffers[w.tcli[self].buffers]
    THEN Raise(SetAttr(w, self, "playback", args[1]), "AttributeError")
  ELSE PlayReturn(
         ParseCommands(SetAttr(w, self, "playback", args[1]), self,
                       w.buffers[w.tcli[self].buffers][args[1]], <<>>),
         self)

\* CommandParser.ExecHandler: the handler registered for the command, a
\* bound method, is called.
ExecHandler(w, parser, command, args, append) ==
  LET h == parser[command].handler
  IN  CASE h.method = "_CmdToggleValue" ->
             CmdToggleValue(w, h.self, command, args, append)
        [] h.method = "_CmdColorScheme" ->
             CmdColorScheme(w, h.self, command, args, append)
        [] h.method = "_CmdDisplay" ->
             CmdDisplay(w, h.self, command, args, append)
        [] h.method = "_CmdFilter" /\ h.self # 0 ->
             CmdFilter(w, h.self, command, args, append)
        [] h.method = "_CmdMode" ->
             CmdMode(w, h.self, command, args, append)
        [] h.method = "_CmdTimeout" ->
             CmdTimeout(w, h.self, command, args, append)
        [] h.method = "_CmdLogging" ->
             CmdLogging(w, h.self, command, args, append)
        [] h.method = "_CmdLogStop" ->
             CmdLogStop(w, h.self, command, args, append)
        [] h.method = "_CmdExit" ->
             CmdExit(w, h.self, command, args, append)
        [] h.method = "_CmdCommand" ->
             CmdCommand(w, h.self, command, args, append)
        [] h.method = "_CmdHelp" ->
             CmdHelp(w, h.self, command, args, append)
        [] h.method = "_CmdPlay" ->
             CmdPlay(w, h.self, command, args, append)
        [] h.method = "_CmdRead" ->
             CmdRead(w, h.self, command, args, append)

\* A TildeCmd that logs a logstop and a recordstop like any other command.
TildeCmdLogStops(w, self, line, p) ==
  LET me == w.tcli[self]
  IN  IF p.command_name = "help" THEN w
      ELSE BuffersAppend(
             BuffersAppend(w, self, me.recordall, <<<<TILDE>> \o line>>),
             self, me.logall, <<<<TILDE>> \o line>>)

\* TCLI.TildeCmd: the valid command p goes to recordall and logall.
TildeCmdLog(w, self, line, p) ==
  LET me == w.tcli[self]
      Stops(buf) == /\ p.command_name \in {"recordstop", "logstop"}
                    /\ p.arguments # <<>>
                    /\ p.arguments[1] = buf
      w1 == IF Stops(me.recordall) THEN w
            ELSE BuffersAppend(w, self, me.recordall, <<<<TILDE>> \o line>>)
  IN  IF p.command_name = "help" THEN w
      ELSE IF Stops(me.logall) THEN w1
      ELSE BuffersAppend(w1, self, me.logall, <<<<TILDE>> \o line>>)

\* TCLI.TildeCmd: what follows the handler, r what the handler gave back;
\* an EOFError leaves through w.eof, any other exception but ValueError
\* through w.uncaught.
TildeCmdExec(r, self) ==
  IF r.raised = "ValueError"
    THEN PrintWarning(r.w, self,
                      IF r.text # <<>> THEN r.text ELSE ValueErrorMsg)
  ELSE IF r.raised = "EOFError" THEN [r.w EXCEPT !.eof = TRUE]
  ELSE IF r.raised # "" THEN [r.w EXCEPT !.uncaught = r.raised]
  ELSE PrintSystem(r.w, self, r.text)

\* What a call of TildeCmd can change, as it is in w: the fields of the
\* session, its buffers, and how many warnings, CmdRequests calls and
\* TildeCmd calls there have been.
Seen(w, self) ==
  [obj |-> [w.tcli[self] EXCEPT !.cli_parser = <<>>],
   buffers |-> w.buffers[w.tcli[self].buffers],
   warned |-> Len(w.warned), calls |-> Len(w.calls), tilde |-> Len(w.tilde)]

\* The call of TildeCmd that took w to out is put on record: w at the
\* call, entry when the handler was called, r what the handler gave back.
TildeCmdNoted(w, self, line, p, entry, r, out) ==
  [out EXCEPT !.tilde =
     Append(@, [self |-> self, line |-> line, command |-> p.command_name,
                args |-> p.arguments, raised |-> r.raised,
                before |-> Seen(w, self), entry |-> Seen(entry, self),
                after |-> Seen(out, self)])]

\* TCLI.TildeCmd: the handler is called in entry and gave back r.
TildeCmdHandled(w, self, line, p, entry, r) ==
  TildeCmdNoted(w, self, line, p, entry, r, TildeCmdExec(r, self))

\* TCLI.TildeCmd: the command p is valid, entry is the world after logging.
TildeCmdValid(w, self, line, p, entry) ==
  TildeCmdHandled(w, self, line, p, entry,
                  ExecHandler(entry, w.tcli[self].cli_parser, p.command_name,
                              p.arguments, p.append))

\* TCLI.TildeCmd, p what ParseCommandLine gave.
TildeCmdParsed(w, self, line, p) ==
  IF ~p.ok
    THEN TildeCmdNoted(w, self, line, p, w, Raise(w, "ParseError"),
                       PrintWarning(w, self, ParseErrorMsg))
  ELSE TildeCmdValid(w, self, line, p, TildeCmdLog(w, self, line, p))

\* TCLI.TildeCmd
TildeCmd(w, self, line) ==
  TildeCmdParsed(w, self, line,
                 ParseCommandLine(w.tcli[self].cli_parser, line))

\* A __copy__ whose registry holds the handlers of the session copied.
CopyParentHandlers(w, self) ==
  LET me == w.tcli[self]
      fresh == TCLI(Len(w.buffers) + 1, Len(w.ledgers) + 1)
      tcli_obj ==
        [fresh EXCEPT
           !.buffers = me.buffers, !.cmd_response = me.cmd_response,
           !.cli_parser = InlineOnly(RegisterCommands(self, <<>>)),
           !.color = me.color, !.color_scheme = me.color_scheme,
           !.display = me.display, !.filter = me.filter,
           !.linewrap = me.linewrap, !.log = me.log, !.logall = me.logall,
           !.mode = me.mode, !.playback = me.playback,
           !.record = me.record, !.recordall = me.recordall,
           !.safemode = me.safemode, !.timeout = me.timeout,
           !.verbose = me.verbose]
  IN  [w EXCEPT !.tcli = Append(@, tcli_obj),
                !.buffers = Append(@, <<>>),
                !.ledgers = Append(@, CmdResponse)]

\* TCLI.__copy__: the child is the last object of w.tcli.  Its constructor
\* made a TextBuffer and a CmdResponse that the copy then leaves unused.
Copy(w, self) ==
  LET me == w.tcli[self]
      fresh == TCLI(Len(w.buffers) + 1, Len(w.ledgers) + 1)
      tcli_obj ==
        [fresh EXCEPT
           !.buffers = me.buffers, !.cmd_response = me.cmd_response,
           !.cli_parser =
             InlineOnly(RegisterCommands(Len(w.tcli) + 1, <<>>)),
           !.color = me.color, !.color_scheme = me.color_scheme,
           !.display = me.display, !.filter = me.filter,
           !.linewrap = me.linewrap, !.log = me.log, !.logall = me.logall,
           !.mode = me.mode, !.playback = me.playback,
           !.record = me.record, !.recordall = me.recordall,
           !.safemode = me.safemode, !.timeout = me.timeout,
           !.verbose = me.verbose]
  IN  [w EXCEPT !.tcli = Append(@, tcli_obj),
                !.buffers = Append(@, <<>>),
                !.ledgers = Append(@, CmdResponse)]

\* '//' in command
HasInline(command) ==
  \E i \in 1..Len(command) : command[i] \in {INLINE, GluedInline}

\* command.split(' //')
RECURSIVE SplitInline(_)
SplitInline(command) ==
  IF \A i \in 1..Len(command) : command[i] # INLINE THEN <<command>>
  ELSE
    LET i == CHOOSE j \in 1..Len(command) :
               /\ command[j] = INLINE
               /\ \A k \in 1..(j - 1) : command[k] # INLINE
    IN  <<SubSeq(command, 1, i - 1)>>
          \o SplitInline(SubSeq(command, i + 1, Len(command)))

\* ' //'.join(token_list)
RECURSIVE JoinInline(_)
JoinInline(token_list) ==
  IF token_list = <<>> THEN <<>>
  ELSE IF Len(token_list) = 1 THEN token_list[1]
  ELSE token_list[1] \o <<INLINE>> \o JoinInline(Tail(token_list))

\* TCLI._ExtractInlineCommands: the loop over the tokens right of the
\* command, from the right; index tokens are still to parse.  The result is
\* (command_left, inline_tcli) and the world.
RECURSIVE InlineLoop(_, _, _, _)

\* The loop after the handler of token index, r what the handler gave back.
InlineLoopExec(r, inline_tcli, token_list, index) ==
  IF r.raised = "ValueError"
    THEN [w |-> r.w, inline_tcli |-> inline_tcli,
          command |-> JoinInline(SubSeq(token_list, 1, index + 1))]
  ELSE IF r.raised = "EOFError"
    THEN [w |-> r.w, inline_tcli |-> inline_tcli,
          command |-> JoinInline(SubSeq(token_list, 1, index))]
  ELSE IF r.raised # ""
    THEN [w |-> [r.w EXCEPT !.uncaught = r.raised],
          inline_tcli |-> inline_tcli,
          command |-> JoinInline(SubSeq(token_list, 1, index + 1))]
  ELSE InlineLoop(r.w, inline_tcli, token_list, index - 1)

InlineLoop(w, inline_tcli, token_list, index) ==
  IF index = 0
    THEN [w |-> w, inline_tcli |-> inline_tcli, command |-> token_list[1]]
  ELSE
    LET parser == w.tcli[inline_tcli].cli_parser
        p == ParseCommandLine(parser, token_list[index + 1])
    IN  IF ~p.ok
          THEN [w |-> w, inline_tcli |-> inline_tcli,
                command |-> JoinInline(SubSeq(token_list, 1, index + 1))]
        ELSE InlineLoopExec(
               ExecHandler(w, parser, p.command_name, p.arguments, p.append),
               inline_tcli, token_list, index)

\* TCLI._ExtractInlineCommands: (command_left, inline_tcli), inline_tcli 0
\* for None.
TCLI_ExtractInlineCommands(w, self, command) ==
  IF ~HasInline(command)
    THEN [w |-> w, inline_tcli |-> 0, command |-> command]
  ELSE InlineLoop(Copy(w, self), Len(w.tcli) + 1, SplitInline(command),
                  Len(SplitInline(command)) - 1)

\* A _FlushCommands that submits nothing.
FlushCommandsDropped(w, self, commands) == w

\* ParseCommands._FlushCommands
FlushCommands(w, self, commands) ==
  IF commands # <<>> THEN CmdRequests(w, self, w.device_list, commands, FALSE)
  ELSE w

\* TCLI.ParseCommands: a line for the devices, x what
\* _ExtractInlineCommands gave back.
ParseInline(x, self, command, collected) ==
  IF x.w.uncaught # "" THEN [w |-> x.w, command_list |-> collected]
  ELSE IF x.command # command
    THEN [w |-> ParseCommands(FlushCommands(x.w, self, collected),
                              x.inline_tcli, <<x.command>>, <<>>),
          command_list |-> <<>>]
    ELSE [w |-> x.w, command_list |-> Append(collected, command)]

\* TCLI.ParseCommands: one turn of the loop over the lines.
ParseCommand(w, self, command, collected) ==
  IF command = <<>> THEN [w |-> w, command_list |-> collected]
  ELSE IF command[1] = TILDE
    THEN [w |-> TildeCmd(FlushCommands(w, self, collected), self,
                         Tail(command)),
          command_list |-> <<>>]
  ELSE ParseInline(TCLI_ExtractInlineCommands(w, self, command), self,
                   command, collected)

\* TCLI.ParseCommands: the turns after the one that gave r.
ParseCommandsRest(r, self, commands) ==
  ParseCommands(r.w, self, commands, r.command_list)

ParseCommands(w, self, commands, collected) ==
  IF w.eof \/ w.uncaught # "" THEN w
  ELSE IF commands = <<>> THEN FlushCommands(w, self, collected)
  ELSE ParseCommandsRest(ParseCommand(w, self, Head(commands), collected),
                         self, Tail(commands))

\* The input: lines for the devices, local commands, lines with inline
\* overrides, a blank line.
DeviceLines ==
  {<<"show">>, <<"show", DBL_PIPE, "grep">>,
   <<"show", SGL_PIPE, "inc", DBL_PIPE, "grep", DBL_PIPE, "wc">>,
   <<"show", DBL_PIPE, "grep", SGL_PIPE, "wc">>, <<"show", GluedInline>>}
LocalCommands ==
  {<<"safemode">>, <<"command", "show", DBL_PIPE, "grep">>, <<"C", "show">>,
   <<"command">>, <<"record", "b1">>, <<"log", "b1">>, <<"logall", "b2">>,
   <<"logstop", "b1">>, <<"timeout", "5">>, <<"mode", "bogus">>,
   <<"bogus">>, <<"exit">>}
Overrides ==
  {<<"display", "csv", INLINE, "filter", "f2", INLINE, "mode", "shell">>,
   <<"color", "off", INLINE, "linewrap", "on", INLINE, "verbose", "on">>,
   <<"color_scheme", "dark">>, <<"safemode", "off">>, <<"S">>,
   <<"record", "b1", INLINE, "log", "b2">>,
   <<"recordall", "b1", INLINE, "logall", "b2">>, <<"logstop", "b1">>,
   <<"timeout", "5", INLINE, "display", "csv">>, <<"targets", "d1">>,
   <<"D", "bogus">>,
   <<"display", "csv", INLINE, "exit", INLINE, "mode", "shell">>}
Lines ==
  {<<>>} \cup DeviceLines
         \cup {<<TILDE>> \o c : c \in LocalCommands}
         \cup {<<"show", INLINE>> \o o : o \in Overrides}
         \cup {<<"show", DBL_PIPE, "grep", INLINE, "display", "csv">>}

\* What input_line shows after the end of the input and after a call of
\* CmdRequests from outside.
EndOfLines == <<"\n">>
DirectCall == <<"CmdRequests">>

\* The inventory's device_list.
DeviceLists == {<<>>, <<"d1", "d2">>}

\* The world the session's operators work on: the objects, with the
\* objects no longer referenced dropped (the session, its TextBuffer and
\* its ledger are then objects 1), and nothing sent, printed or called yet.
World(expire) ==
  [tcli |-> <<[tcli[1] EXCEPT !.buffers = 1, !.cmd_response = 1]>>,
   buffers |-> <<buffers[tcli[1].buffers]>>,
   ledgers |-> <<ledgers[tcli[1].cmd_response]>>,
   UID |-> UID, sent |-> <<>>, warned |-> <<>>, calls |-> <<>>,
   eof |-> FALSE, expire |-> expire, dry_run |-> dry_run,
   device_list |-> inventory, tilde |-> <<>>, uncaught |-> ""]

\* The world after the step becomes the state.
Commit(w) ==
  /\ tcli' = w.tcli
  /\ buffers' = w.buffers
  /\ ledgers' = w.ledgers
  /\ UID' = w.UID
  /\ sent' = w.sent
  /\ warned' = w.warned
  /\ calls' = w.calls
  /\ eof' = w.eof
  /\ tilde' = w.tilde
  /\ uncaught' = w.uncaught

\* The turn of ParseCommands that gave r becomes the state.
CommitTurn(r) ==
  /\ Commit(r.w)
  /\ pending_list' = IF r.w.eof \/ r.w.uncaught # "" THEN <<>>
                      ELSE r.command_list

\* TCLI.StartUp up to the commands: the inventory commands and the base
\* commands are registered, the defaults set, safe mode set when
\* interactive.
StartUp(interactive, dry, devices) ==
  /\ tcli = <<>>
  /\ tcli' = <<[SetDefaults(TCLI(1, 1)) EXCEPT
                  !.cli_parser = RegisterCommands(1, InventoryCommands),
                  !.safemode = interactive]>>
  /\ buffers' = << <<>> >>
  /\ ledgers' = <<CmdResponse>>
  /\ dry_run' = dry
  /\ inventory' = devices
  /\ UNCHANGED <<UID, sent, warned, calls, eof, tilde, uncaught, input_line,
                 lines_read, pending_list>>
  /\ UNCHANGED <<parser_vars, ledger_vars, aside_vars>>

\* TCLI.ParseCommands: one turn of the loop, on the next line of the input.
ReadLine(line, expire) ==
  /\ tcli # <<>>
  /\ ~eof
  /\ uncaught = ""
  /\ lines_read < MaxLines
  /\ CommitTurn(ParseCommand(World(expire), 1, line, pending_list))
  /\ input_line' = line
  /\ lines_read' = lines_read + 1
  /\ UNCHANGED <<dry_run, inventory>>
  /\ UNCHANGED <<parser_vars, ledger_vars, aside_vars>>

\* TCLI.ParseCommands: the input has ended, the commands collected are
\* flushed.
EndOfInput(expire) ==
  /\ tcli # <<>>
  /\ ~eof
  /\ uncaught = ""
  /\ pending_list # <<>>
  /\ Commit(FlushCommands(World(expire), 1, pending_list))
  /\ pending_list' = <<>>
  /\ input_line' = EndOfLines
  /\ UNCHANGED <<lines_read, dry_run, inventory>>
  /\ UNCHANGED <<parser_vars, ledger_vars, aside_vars>>

\* A call of CmdRequests from outside ParseCommands, as the unit tests make.
CallCmdRequests(hosts, commands, explicit_cmd, expire) ==
  /\ tcli # <<>>
  /\ ~eof
  /\ uncaught = ""
  /\ pending_list = <<>>
  /\ lines_read < MaxLines
  /\ Commit(CmdRequests(World(expire), 1, hosts, commands, explicit_cmd))
  /\ input_line' = DirectCall
  /\ lines_read' = lines_read + 1
  /\ UNCHANGED <<pending_list, dry_run, inventory>>
  /\ UNCHANGED <<parser_vars, ledger_vars, aside_vars>>

SessionNext ==
  \/ \E interactive \in BOOLEAN, dry \in BOOLEAN, devices \in DeviceLists :
       StartUp(interactive, dry, devices)
  \/ \E line \in Lines, expire \in SUBSET (1..MaxCalls) :
       ReadLine(line, expire)
  \/ \E expire \in SUBSET (1..MaxCalls) : EndOfInput(expire)
  \/ \E hosts \in DeviceLists, commands \in {<<>>, <<<<"show">>>>},
        explicit_cmd \in BOOLEAN, expire \in SUBSET (1..MaxCalls) :
       CallCmdRequests(hosts, commands, explicit_cmd, expire)

SessionSpec == Init /\ [][SessionNext]_vars

(***************************************************************************)
(* TCLI session: TildeCmd with play, read and help                         *)
(***************************************************************************)

\* The lines of a session that reads files into buffers, plays buffers and
\* opens them for writing: local commands that are valid, one that does
\* not parse, one whose handler raises ValueError (the file does not
\* exist), help, quit, and a line for the devices.
PlayLines ==
  {<<TILDE, "read", "b1", "f1">>, <<TILDE, "read", "b1", "f2">>,
   <<TILDE, "read", "b1", "nofile">>, <<TILDE, "play", "b1">>,
   <<TILDE, "P", "b2">>, <<TILDE, "record", "b1">>, <<TILDE, "log", "b1">>,
   <<TILDE, "recordall", "b1">>, <<TILDE, "logall", "b2">>,
   <<TILDE, "help">>, <<TILDE, "bogus">>, <<TILDE, "quit">>, <<"show">>}

\* TCLI.ParseCommands: one turn of the loop, on the next line of the input
\* of such a session; no wait for responses expires.
PlayLine(line) ==
  /\ tcli # <<>>
  /\ ~eof
  /\ uncaught = ""
  /\ lines_read < MaxPlayLines
  /\ CommitTurn(ParseCommand(World({}), 1, line, pending_list))
  /\ input_line' = line
  /\ lines_read' = lines_read + 1
  /\ UNCHANGED <<dry_run, inventory>>
  /\ UNCHANGED <<parser_vars, ledger_vars, aside_vars>>

PlayNext ==
  \/ StartUp(FALSE, FALSE, <<"d1", "d2">>)
  \/ \E line \in PlayLines : PlayLine(line)
  \/ EndOfInput({})

PlaySpec == Init /\ [][PlayNext]_vars

(***************************************************************************)
(* TCLI session: TildeCmd with the buffers and the settings                *)
(***************************************************************************)

\* The lines of a session that opens and closes buffers and changes
\* timeout, display and mode, with arguments that are valid and that are
\* not, a command that is not registered, help, and a line for the devices.
LocalLines ==
  {<<TILDE, "recordall", "b1">>, <<TILDE, "logall", "b2">>,
   <<TILDE, "record", "b1">>, <<TILDE, "log", "b2">>,
   <<TILDE, "recordstop", "b1">>, <<TILDE, "logstop", "b2">>,
   <<TILDE, "logstop", "b1">>,
   <<TILDE, "timeout", "5">>, <<TILDE, "timeout", "x">>,
   <<TILDE, "timeout", "-15">>, <<TILDE, "timeout", "0">>,
   <<TILDE, "display", "csv">>, <<TILDE, "display", "bogus">>,
   <<TILDE, "mode", "shell">>, <<TILDE, "mode", "bogus">>,
   <<TILDE, "help">>, <<TILDE, "bogus">>, <<"show">>}

\* TCLI.ParseCommands: one turn of the loop, on the next line of the input
\* of such a session; no wait for responses expires.
LocalLine(line) ==
  /\ tcli # <<>>
  /\ ~eof
  /\ uncaught = ""
  /\ lines_read < MaxLocalLines
  /\ CommitTurn(ParseCommand(World({}), 1, line, pending_list))
  /\ input_line' = line
  /\ lines_read' = lines_read + 1
  /\ UNCHANGED <<dry_run, inventory>>
  /\ UNCHANGED <<parser_vars, ledger_vars, aside_vars>>

LocalNext ==
  \/ StartUp(FALSE, FALSE, <<"d1", "d2">>)
  \/ \E line \in LocalLines : LocalLine(line)
  \/ EndOfInput({})

LocalSpec == Init /\ [][LocalNext]_vars

(***************************************************************************)
(* CommandParser.ExtractInlineCommands                                     *)
(***************************************************************************)

\* A scan that takes 'exit' for a command like any other.
IsExitNever(token) == FALSE

\* token == 'exit'
IsExit(token) == token = <<"exit">>

\* An except clause that leaves index at the token that did not parse.
UnparsedIndexSame(i) == i

\* The except clause: index += 1, "including the current one".
UnparsedIndex(i) == i + 1

\* The for loop of ExtractInlineCommands at token i of token_list (the
\* tokens right of the command), with the inline_commands found so far:
\* (index, inline_commands) after the loop.
RECURSIVE InlineScan(_, _, _, _)
InlineScan(parser, token_list, i, inline_commands) ==
  IF i = 0 THEN <<1, inline_commands>>
  ELSE IF IsExit(token_list[i]) THEN <<i, inline_commands>>
  ELSE IF ParseCommandLine(parser, token_list[i]).ok
    THEN InlineScan(parser, token_list, i - 1,
                    <<token_list[i]>> \o inline_commands)
  ELSE <<UnparsedIndex(i), inline_commands>>

\* The return of ExtractInlineCommands: command_str + command_suffix and
\* inline_commands, scan being (index, inline_commands).
InlineResult(command_str, token_list, scan) ==
  <<IF scan[1] > 1
      THEN command_str \o <<INLINE>>
             \o JoinInline(SubSeq(token_list, 1, scan[1] - 1))
      ELSE command_str,
    scan[2]>>

\* CommandParser.ExtractInlineCommands: (command, inline_commands)
ExtractInlineCommands(parser, command) ==
  IF Len(SplitInline(command)) = 1 THEN <<command, <<>>>>
  ELSE InlineResult(Head(SplitInline(command)), Tail(SplitInline(command)),
                    InlineScan(parser, Tail(SplitInline(command)),
                               Len(SplitInline(command)) - 1, <<>>))

\* The registry of testExtractInlineCmds: log, display (alias D) and exit,
\* each registered or not.
InlineRegistryNames == {"log", "display", "exit"}
InlineDescriptor(command_name) ==
  IF command_name = "display"
    THEN [DefaultAttr EXCEPT !.short_name = "D", !.inline = TRUE]
    ELSE [DefaultAttr EXCEPT !.inline = TRUE]

\* The lines given to ExtractInlineCommands: a command, with or without a
\* '//' that has no space before it, then up to MaxSegments segments, each
\* after ' //': commands of the registry, 'exit' alone and with an argument,
\* a name that is not registered, and nothing.
InlineBodies == {<<"cat", "alpha">>, <<"show", GluedInline>>}
InlineSegments ==
  {<<"log", "boo">>, <<"D", "csv">>, <<"exit">>, <<"exit", "now">>,
   <<"bogus">>, <<>>}
InlineLines ==
  {JoinInline(<<b>> \o f) :
     b \in InlineBodies,
     f \in UNION {[1..n -> InlineSegments] : n \in 0..MaxSegments}}

\* A call of RegisterCommand, while the registry is being built.
DoRegisterInline(command_name) ==
  /\ parsed = None
  /\ command_name \notin DOMAIN cli_parser
  /\ cli_parser' = RegisterCommand(cli_parser, command_name,
                                   InlineDescriptor(command_name))
  /\ parsed' = None
  /\ UNCHANGED <<dispatch_vars, session_vars, aside_vars>>

\* A call of ExtractInlineCommands on the registry as it stands.
DoExtractInlineCommands(command) ==
  /\ parsed' = [op |-> "ExtractInlineCommands", line |-> command,
                result |-> ExtractInlineCommands(cli_parser, command)]
  /\ UNCHANGED <<cli_parser, dispatch_vars, session_vars, aside_vars>>

\* A second call, on the command the first call returned; first is the
\* command of the first call.
DoExtractInlineCommandsAgain ==
  /\ parsed # None
  /\ parsed.op = "ExtractInlineCommands"
  /\ parsed' = [op |-> "ExtractInlineCommandsAgain",
                line |-> parsed.result[1], first |-> parsed.line,
                result |-> ExtractInlineCommands(cli_parser,
                                                 parsed.result[1])]
  /\ UNCHANGED <<cli_parser, dispatch_vars, session_vars, aside_vars>>

InlineNext ==
  \/ \E command_name \in InlineRegistryNames : DoRegisterInline(command_name)
  \/ /\ parsed = None
     /\ \E command \in InlineLines : DoExtractInlineCommands(command)
  \/ DoExtractInlineCommandsAgain

InlineSpec == Init /\ [][InlineNext]_vars

(***************************************************************************)
(* CommandParser.ExecWithDefault                                           *)
(***************************************************************************)

\* The default_value of a descriptor, each Python value by its repr: None
\* (the default of RegisterCommand), the two booleans, a string and the
\* empty string; the handler of a descriptor: None, the default of
\* RegisterCommand (lambda: None) and the _Handler of the unit test.
DefaultValues == {"None", "True", "False", "'csv'", "''"}
Handlers == {"None", "lambda: None", "_Handler"}

\* The truth value of a Python value.
Truthy(value) == value \in {"True", "'csv'"}

\* A descriptor of RegisterCommand with default_value given.
WithDefault(attr, default_value) ==
  [f \in DOMAIN attr \cup {"default_value"} |->
     IF f = "default_value" THEN default_value ELSE attr[f]]

\* What a call gave: the exception raised ("" for none), the calls of
\* handlers made, each (command_name, args, append), and the value returned.
Outcome(raised, handler_calls, returned) ==
  [raised |-> raised, handler_calls |-> handler_calls, returned |-> returned]

\* CommandParser.ExecHandler, the handler one that returns its arguments or
\* one that takes no argument.
ExecHandlerCall(parser, command_name, args, append) ==
  IF parser[command_name].handler = "None"
    THEN Outcome("ParseError", <<>>, None)
  ELSE IF parser[command_name].handler = "lambda: None"
    THEN Outcome("TypeError", << <<command_name, args, append>> >>, None)
  ELSE Outcome("", << <<command_name, args, append>> >>,
               <<command_name, args, append>>)

\* An ExecWithDefault that hands a toggle its default as it is.
ToggleValueRaw(value) == value

\* ExecWithDefault: if value: value = 'on' else: value = 'off'
ToggleValue(value) == IF Truthy(value) THEN "on" ELSE "off"

\* CommandParser.ExecWithDefault.  Every descriptor has the attribute
\* default_value, so the return for a missing attribute is never taken.
ExecWithDefault(parser, command_name) ==
  IF command_name \notin DOMAIN parser THEN Outcome("ValueError", <<>>, None)
  ELSE IF parser[command_name].max_args = 0
    THEN Outcome("ParseError", <<>>, None)
  ELSE ExecHandlerCall(
         parser, command_name,
         <<IF parser[command_name].toggle
             THEN ToggleValue(parser[command_name].default_value)
             ELSE parser[command_name].default_value>>,
         FALSE)

\* The registries ExecWithDefault is called on: a with any toggle,
\* default_value, max_args and handler, b as the unit test registers a.
DefaultNames == {"a", "b"}
DefaultDescriptors(command_name) ==
  IF command_name = "a"
    THEN {WithDefault([DefaultAttr EXCEPT !.toggle = t, !.max_args = hi,
                                          !.handler = h], v) :
            t \in BOOLEAN, hi \in 0..2, h \in Handlers, v \in DefaultValues}
    ELSE {WithDefault([DefaultAttr EXCEPT !.toggle = TRUE,
                                          !.handler = "_Handler"], "True")}

\* A call of RegisterCommand, while the registry is being built.
DoRegisterDefault(command_name, attr) ==
  /\ parsed = None
  /\ cli_parser' = RegisterCommand(cli_parser, command_name, attr)
  /\ parsed' = None
  /\ UNCHANGED <<dispatch_vars, session_vars, aside_vars>>

\* A call of ExecWithDefault on the registry as it stands.
DoExecWithDefault(command_name) ==
  /\ parsed' = [op |-> "ExecWithDefault", line |-> command_name,
                result |-> ExecWithDefault(cli_parser, command_name)]
  /\ UNCHANGED <<cli_parser, dispatch_vars, session_vars, aside_vars>>

DefaultNext ==
  \/ \E command_name \in DefaultNames :
       \E attr \in DefaultDescriptors(command_name) :
         DoRegisterDefault(command_name, attr)
  \/ /\ parsed = None
     /\ \E command_name \in DefaultNames \cup {"c"} :
          DoExecWithDefault(command_name)

DefaultSpec == Init /\ [][DefaultNext]_vars

(***************************************************************************)
(* Inventory: the filters, the device list and the loading of the devices  *)
(* (tcli/inventory_base.py, with the attribute vendor of inventory_csv.py) *)
(***************************************************************************)

\* The devices _FetchDevices finds, in the order of the dict, and the
\* vendor of each.
FetchedDevices == <<"d1", "d2", "d3">>
Vendor(devicename) == IF devicename = "d3" THEN "juniper" ELSE "cisco"

\* DEVICE_ATTRIBUTES['vendor'].valid_values
VendorValues == {"cisco", "juniper"}

\* attribute[1:], for the name of an exclusion.
StripX(filter_name) ==
  CASE filter_name = "xtargets" -> "targets"
    [] filter_name = "xvendor" -> "vendor"
    [] OTHER -> filter_name

\* A filter string is the sequence of its comma separated items.  An item
\* that starts with '^' is a regular expression: '^' alone clears the
\* filter, '^(' does not compile.
CLEAR == "^"
BadRegexp == "^("
IsRegexp(item) == item \in {CLEAR, BadRegexp, "^d.*", "^d1", "^c.*"}

\* regexp.match(attr_value) for the compiled item, '$' added.
RegexpMatch(item, attr_value) ==
  CASE item = "^d.*" -> attr_value \in {"d1", "d2", "d3"}
    [] item = "^d1" -> attr_value = "d1"
    [] item = "^c.*" -> attr_value = "cisco"
    [] OTHER -> FALSE

\* What a method of the inventory gave: the object after it, the exception
\* raised ("" for none) and the value returned.
Gave(i, raised, result) == [inv |-> i, raised |-> raised, result |-> result]

\* Inventory._DecomposeFilter: (literal_match, re_match)
DecomposeFilter(filter_string) ==
  [literals |-> SelectSeq(filter_string, LAMBDA item : ~IsRegexp(item)),
   compiled |-> SelectSeq(filter_string, IsRegexp)]

\* Inventory._ChangeDeviceListFilters
ChangeDeviceListFilters(i, filter_name, literals, compiled) ==
  [i EXCEPT !.literals_filter = Put(@, filter_name, literals),
            !.compiled_filter = Put(@, filter_name, compiled),
            !.device_list = None]

\* Inventory._ChangeFilter; a filter that is cleared stores None for both
\* lists (the empty list here).
ChangeFilter(i, filter_name, arg) ==
  IF arg = <<>> \/ arg = <<CLEAR>>
    THEN Gave(ChangeDeviceListFilters(i, filter_name, <<>>, <<>>), "", <<>>)
  ELSE IF \E k \in DOMAIN arg : arg[k] = BadRegexp
    THEN Gave(i, "ValueError", None)
  ELSE
    LET d == DecomposeFilter(arg)
        on_targets == StripX(filter_name) = "targets"
        validate_list == IF on_targets THEN Range(i.devices) ELSE VendorValues
    IN  IF d.literals # <<>> /\ on_targets /\ i.devices = <<>>
          THEN Gave(i, "InventoryError", None)
        ELSE IF Range(d.literals) \ validate_list # {}
          THEN Gave(i, "ValueError", None)
        ELSE Gave(ChangeDeviceListFilters(i, filter_name, d.literals,
                                          d.compiled), "", arg)

\* The filter command_name as it stands.
CurrentFilter(i, command_name) ==
  IF command_name \in InclusionNames THEN i.inclusions[command_name]
  ELSE i.exclusions[command_name]

\* Inventory._CmdFilter
Inventory_CmdFilter(i, command_name, args, append) ==
  IF command_name \notin InclusionNames \cup ExclusionNames
    THEN Gave(i, "ValueError", None)
  ELSE
    LET inclusive == command_name \in InclusionNames
        current == CurrentFilter(i, command_name)
    IN  IF args = <<>> THEN Gave(i, "", current)
        ELSE
          LET filter_string ==
                IF append /\ args[1] # <<>> /\ current # <<>>
                  THEN current \o args[1] ELSE args[1]
              r == ChangeFilter(i, command_name, filter_string)
          IN  IF r.raised # "" THEN r
              ELSE IF inclusive
                THEN Gave([r.inv EXCEPT !.inclusions[command_name] = r.result],
                          "", <<>>)
              ELSE Gave([r.inv EXCEPT !.exclusions[command_name] = r.result],
                        "", <<>>)

\* int(args[0]) for the arguments used here.
MaxTargetsValue(arg) ==
  CASE arg = "0" -> 0 [] arg = "2" -> 2 [] OTHER -> 0 - 1

\* Inventory._CmdMaxTargets.  When int() raises, the except clause reads
\* the local maxtargets before it is bound.
Inventory_CmdMaxTargets(i, command_name, args, append) ==
  IF args = <<>> THEN Gave(i, "", <<i.maxtargets>>)
  ELSE IF args[1] = "abc" THEN Gave(i, "UnboundLocalError", None)
  ELSE IF MaxTargetsValue(args[1]) < 0 THEN Gave(i, "ValueError", None)
  ELSE Gave([i EXCEPT !.maxtargets = MaxTargetsValue(args[1])], "", <<>>)

\* Inventory._Match, attr_value a string.
Match(i, attr, attr_value) ==
  \/ /\ attr \in DOMAIN i.literals_filter
     /\ \E k \in DOMAIN i.literals_filter[attr] :
          i.literals_filter[attr][k] = attr_value
  \/ /\ attr \in DOMAIN i.compiled_filter
     /\ \E k \in DOMAIN i.compiled_filter[attr] :
          RegexpMatch(i.compiled_filter[attr][k], attr_value)

\* The value of the device that filter attr is matched against.
AttrValue(attr, devicename) ==
  IF StripX(attr) = "targets" THEN devicename ELSE Vendor(devicename)

\* Inventory._FilterMatch
FilterMatch(i, devicename, exclude) ==
  IF exclude
    THEN \E attr \in ExclusionNames :
           /\ i.exclusions[attr] # <<>>
           /\ Match(i, attr, AttrValue(attr, devicename))
  ELSE \A attr \in InclusionNames :
         i.inclusions[attr] # <<>> =>
           Match(i, attr, AttrValue(attr, devicename))

\* Inventory._BuildDeviceList: the cache is set to [] before anything else.
BuildDeviceList(i) ==
  LET i1 == [i EXCEPT !.device_list = << <<>> >>]
  IN  IF i.inclusions["targets"] = <<>> THEN Gave(i1, "", <<>>)
      ELSE IF i.devices = <<>> THEN Gave(i1, "InventoryError", None)
      ELSE
        LET devs ==
              SelectSeq(i.devices,
                        LAMBDA d : ~FilterMatch(i, d, TRUE)
                                   /\ FilterMatch(i, d, FALSE))
        IN  IF i.maxtargets # 0 /\ Len(devs) > i.maxtargets
              THEN Gave(i1, "ValueError", None)
            ELSE Gave([i EXCEPT !.device_list = <<devs>>], "", devs)

\* Inventory._GetDeviceList
GetDeviceList(i) ==
  IF i.device_list = None THEN BuildDeviceList(i)
  ELSE Gave(i, "", i.device_list[1])

\* Inventory._GetDevices, after the wait.
GetDevices(i) ==
  IF i.devices = <<>> THEN Gave(i, "InventoryError", None)
  ELSE Gave(i, "", i.devices)

\* Inventory._LoadDevices, after the wait: the event is cleared and the
\* loader thread started.
LoadDevices(i) == Gave([i EXCEPT !.devices_loaded = FALSE], "", None)

\* A call on the inventory.
Op(op, name, args, append) ==
  [op |-> op, name |-> name, args |-> args, append |-> append]

\* The call c, made on the inventory i.
Run(i, c) ==
  CASE c.op = "_CmdFilter" -> Inventory_CmdFilter(i, c.name, c.args, c.append)
    [] c.op = "_CmdMaxTargets" ->
         Inventory_CmdMaxTargets(i, c.name, c.args, c.append)
    [] c.op = "device_list" -> GetDeviceList(i)
    [] c.op = "GetDevices" -> GetDevices(i)
    [] c.op = "LoadDevices" -> LoadDevices(i)

\* The call c reaches self._devices_loaded.wait().
Waits(i, c) ==
  CASE c.op = "_CmdFilter" ->
         /\ c.name \in {"targets", "xtargets"}
         /\ c.args # <<>>
         /\ \E k \in DOMAIN c.args[1] : ~IsRegexp(c.args[1][k])
         /\ \A k \in DOMAIN c.args[1] : c.args[1][k] # BadRegexp
    [] c.op = "_CmdMaxTargets" -> FALSE
    [] c.op = "device_list" ->
         i.device_list = None /\ i.inclusions["targets"] # <<>>
    [] OTHER -> TRUE

\* The calls that go with a load: reads of the devices and of the device
\* list, a filter that names a device, and the load.
LoadOps ==
  {Op("device_list", "", <<>>, FALSE), Op("GetDevices", "", <<>>, FALSE),
   Op("LoadDevices", "", <<>>, FALSE),
   Op("_CmdFilter", "targets", <<<<"d1">>>>, FALSE),
   Op("_CmdFilter", "targets", <<<<"^d.*">>>>, FALSE)}

\* The calls made on the inventory: filters that are valid, that name
\* nothing known and that do not compile, set and appended; maxtargets that
\* are cardinals and that are not; reads of the device list and of the
\* devices; a load.
Ops ==
  {Op("_CmdFilter", "targets", <<f>>, FALSE) :
     f \in {<<>>, <<CLEAR>>, <<"d1">>, <<"^d.*">>, <<"nonexistant">>,
            <<BadRegexp>>}}
  \cup {Op("_CmdFilter", "targets", <<<<"d2">>>>, TRUE),
        Op("_CmdFilter", "xtargets", <<<<"d1">>>>, FALSE),
        Op("_CmdFilter", "xtargets", <<<<>>>>, FALSE),
        Op("_CmdFilter", "vendor", <<<<"^c.*">>>>, FALSE),
        Op("_CmdFilter", "vendor", <<<<"bogus">>>>, FALSE),
        Op("_CmdFilter", "xvendor", <<<<"juniper">>>>, FALSE)}
  \cup {Op("_CmdMaxTargets", "maxtargets", <<m>>, FALSE) :
          m \in {"0", "2", "abc", "-1"}}
  \cup LoadOps

\* The call c ends: inv is the object after it, inv_call what it gave, and
\* a load that started has the loader thread running.
Done(c) ==
  /\ inv' = Run(inv, c).inv
  /\ inv_call' = [call |-> c, raised |-> Run(inv, c).raised,
                  result |-> Run(inv, c).result]
  /\ inv_pc' = None
  /\ loader' = IF c.op = "LoadDevices" THEN "fetch" ELSE loader

\* The main thread makes the call c: it runs to its end, or stops in
\* self._devices_loaded.wait() while a load is in progress.  A filter string
\* is appended to while it has fewer than MaxFilterItems items.
Call(c) ==
  /\ inv_pc = None
  /\ c.append =>
       Len(CurrentFilter(inv, c.name)) + Len(c.args[1]) <= MaxFilterItems
  /\ IF Waits(inv, c) /\ ~inv.devices_loaded
       THEN inv_pc' = <<c>> /\ UNCHANGED <<inv, inv_call, loader>>
       ELSE Done(c)
  /\ UNCHANGED <<parser_vars, session_vars, dispatch_vars, lock_vars>>

\* The wait of the blocked call returns: the event is set.
Resume ==
  /\ inv_pc # None
  /\ inv.devices_loaded
  /\ Done(inv_pc[1])
  /\ UNCHANGED <<parser_vars, session_vars, dispatch_vars, lock_vars>>

\* _AsyncBuildDeviceData: _FetchDevices returns, having stored devices.
FetchReturns(devices) ==
  /\ loader = "fetch"
  /\ inv' = [inv EXCEPT !.devices = devices]
  /\ loader' = "returned"
  /\ UNCHANGED <<inv_call, inv_pc>>
  /\ UNCHANGED <<parser_vars, session_vars, dispatch_vars, lock_vars>>

\* _AsyncBuildDeviceData: _FetchDevices raises.
FetchRaises ==
  /\ loader = "fetch"
  /\ loader' = "raised"
  /\ UNCHANGED <<inv, inv_call, inv_pc>>
  /\ UNCHANGED <<parser_vars, session_vars, dispatch_vars, lock_vars>>

\* An _AsyncBuildDeviceData without the finally: the event is set only
\* after a fetch that returned.
DevicesLoadedSetOnReturn ==
  /\ loader = "returned"
  /\ inv' = [inv EXCEPT !.devices_loaded = TRUE]
  /\ loader' = "none"
  /\ UNCHANGED <<inv_call, inv_pc>>
  /\ UNCHANGED <<parser_vars, session_vars, dispatch_vars, lock_vars>>

\* _AsyncBuildDeviceData: finally: self._devices_loaded.set()
DevicesLoadedSet ==
  /\ loader \in {"returned", "raised"}
  /\ inv' = [inv EXCEPT !.devices_loaded = TRUE]
  /\ loader' = "none"
  /\ UNCHANGED <<inv_call, inv_pc>>
  /\ UNCHANGED <<parser_vars, session_vars, dispatch_vars, lock_vars>>

\* The loader thread.
Loader ==
  \/ \E devices \in {<<>>, FetchedDevices} : FetchReturns(devices)
  \/ FetchRaises
  \/ DevicesLoadedSet

InventoryNext ==
  \/ \E c \in Ops : Call(c)
  \/ Resume
  \/ Loader

InventorySpec == Init /\ [][InventoryNext]_vars

\* The inventory while it loads.
LoadNext ==
  \/ \E c \in LoadOps : Call(c)
  \/ Resume
  \/ Loader

\* The loader thread runs to its end once started (a fetch that never ends
\* is outside the model), and a thread whose wait can return does return.
InventoryLiveSpec ==
  Init /\ [][LoadNext]_vars /\ WF_vars(Loader) /\ WF_vars(Resume)

(***************************************************************************)
(* The locks: CmdResponse._lock, one for the class, taken by Synchronized  *)
(* around every ledger method, and TCLI._lock, taken by Callback.  The     *)
(* threads are the Callback invocations of one batch and the thread that   *)
(* runs CmdRequests and Prompt.  ledgers holds the CmdResponse objects     *)
(* made so far, ledger_id says which of them is self.cmd_response.         *)
(***************************************************************************)

\* A lock that any thread may take whoever holds it.
FreeAlways(l, name) == TRUE

\* threading.Lock: acquire() returns when no thread holds the lock.
Free(l, name) == l[name] = NoThread

\* A release that leaves the lock held.
ReleaseKept(l, name) == l

\* threading.Lock.release(), at the end of the with block.
Release(l, name) == [l EXCEPT ![name] = NoThread]

\* The statements of AddResponse, one by one.
AddResponseStore(l, uid) == [l EXCEPT !.results[uid] = uid]
AddResponseRow(l, uid) ==
  [l EXCEPT !.row_response[l.uid_index[uid]] = Append(@, uid)]
AddResponseCount(l) == [l EXCEPT !.response_count = @ + 1]

\* The statements of SetRequest, one by one.
SetRequestResults(l, uid) == [l EXCEPT !.results = Put(@, uid, EmptyResult)]
SetRequestUidIndex(l, command_row, uid) ==
  [l EXCEPT !.uid_index = Put(@, uid, command_row)]
SetRequestRowIndex(l, command_row, uid) ==
  [l EXCEPT !.row_index[command_row] = Append(@, uid)]

\* Thread t goes from where it is to pc p.
Goto(t, p) == th' = [th EXCEPT ![t].pc = p]

\* What the steps of the threads leave alone.
lock_rest == <<parser_vars, inventory_vars, cmd_response, main_vars, cb_vars,
               inflight, delivered, redelivered, released, shown, warnings,
               tcli, buffers, dry_run, inventory, pending_list, input_line,
               lines_read, sent, warned, calls, eof, tilde, uncaught>>

\* self.cmd_response.<method>(...): the object the method is called on is
\* the session's ledger of this moment.
CallMethod(t) ==
  /\ th[t].pc \in {"row_call", "req_call", "add_call", "get_call"}
  /\ th' = [th EXCEPT ![t].obj = ledger_id,
                      ![t].pc = CASE th[t].pc = "row_call" -> "row_enter"
                                  [] th[t].pc = "req_call" -> "req_enter"
                                  [] th[t].pc = "add_call" -> "add_enter"
                                  [] th[t].pc = "get_call" -> "get_enter"]
  /\ UNCHANGED <<lk, ledgers, ledger_id, lock_rest>>

\* Synchronized: with main_obj._lock, the lock of the class.
Synchronized(t) ==
  /\ th[t].pc \in {"new_enter", "row_enter", "req_enter", "add_enter",
                   "get_enter"}
  /\ Free(lk, "ledger")
  /\ lk' = [lk EXCEPT !.ledger = t]
  /\ Goto(t, CASE th[t].pc = "new_enter" -> "new_body"
               [] th[t].pc = "row_enter" -> "row_body"
               [] th[t].pc = "req_enter" -> "req_results"
               [] th[t].pc = "add_enter" -> "add_check"
               [] th[t].pc = "get_enter" -> "get_body")
  /\ UNCHANGED <<ledgers, ledger_id, lock_rest>>

\* CmdRequests begins: command_response.CmdResponse() is called.
CmdRequestsBegin ==
  /\ th[Dispatcher].pc = "idle"
  /\ th' = [th EXCEPT ![Dispatcher].pc = "new_enter",
                      ![Dispatcher].phase = "CmdRequests"]
  /\ UNCHANGED <<lk, ledgers, ledger_id, lock_rest>>

\* CmdResponse.__init__ under the lock.
NewBody ==
  /\ th[Dispatcher].pc = "new_body"
  /\ ledgers' = Append(ledgers, CmdResponse)
  /\ lk' = Release(lk, "ledger")
  /\ th' = [th EXCEPT ![Dispatcher].obj = Len(ledgers) + 1,
                      ![Dispatcher].pc = "assign"]
  /\ UNCHANGED <<ledger_id, lock_rest>>

\* self.cmd_response = <the new object>, in CmdRequests, in its timeout
\* branch and in Prompt, after which the next line is read.
Assign ==
  LET me == th[Dispatcher]
  IN  /\ me.pc = "assign"
      /\ ledger_id' = me.obj
      /\ th' = [th EXCEPT
                  ![Dispatcher].pc =
                     CASE me.phase = "CmdRequests" -> "row_call"
                       [] me.phase = "timeout" -> "prompt"
                       [] me.phase = "Prompt" ->
                            IF me.batch < MaxBatches THEN "idle" ELSE "end",
                  ![Dispatcher].batch =
                     IF me.phase = "Prompt" /\ me.batch < MaxBatches
                       THEN me.batch + 1 ELSE me.batch]
  /\ UNCHANGED <<lk, ledgers, lock_rest>>

\* CmdResponse.SetCommandRow under the lock.
SetCommandRowBody ==
  /\ th[Dispatcher].pc = "row_body"
  /\ ledgers' = [ledgers EXCEPT ![th[Dispatcher].obj] = SetCommandRow(@, 0, <<>>)]
  /\ lk' = Release(lk, "ledger")
  /\ th' = [th EXCEPT ![Dispatcher].pc = "req_call",
                      ![Dispatcher].uid = (th[Dispatcher].batch - 1) * MaxCallbacks + 1]
  /\ UNCHANGED <<ledger_id, lock_rest>>

\* CmdResponse.SetRequest under the lock, statement by statement; the
\* loop of CmdRequests goes on to the next request or to SendRequests.
SetRequestBody ==
  LET me == th[Dispatcher]
      more == me.uid + 1 \in BatchUids(me.batch)
  IN  /\ me.pc \in {"req_results", "req_uid_index", "req_row_index"}
      /\ ledgers' =
           [ledgers EXCEPT ![me.obj] =
              CASE me.pc = "req_results" -> SetRequestResults(@, me.uid)
                [] me.pc = "req_uid_index" -> SetRequestUidIndex(@, 0, me.uid)
                [] me.pc = "req_row_index" -> SetRequestRowIndex(@, 0, me.uid)]
      /\ lk' = IF me.pc = "req_row_index" THEN Release(lk, "ledger") ELSE lk
      /\ th' = [th EXCEPT
                  ![Dispatcher].pc =
                     CASE me.pc = "req_results" -> "req_uid_index"
                       [] me.pc = "req_uid_index" -> "req_row_index"
                       [] me.pc = "req_row_index" ->
                            IF more THEN "req_call" ELSE "send",
                  ![Dispatcher].uid =
                     IF me.pc = "req_row_index" /\ more
                       THEN me.uid + 1 ELSE me.uid]
      /\ UNCHANGED <<ledger_id, lock_rest>>

\* SendRequests: from now on the accessor may invoke the callbacks of
\* the batch.
SendRequests ==
  /\ th[Dispatcher].pc = "send"
  /\ th' = [t \in Threads |->
              IF t = Dispatcher THEN [th[t] EXCEPT !.pc = "wait"]
              ELSE IF t \in BatchUids(th[Dispatcher].batch)
                     THEN [th[t] EXCEPT !.pc = "start"]
                     ELSE th[t]]
  /\ UNCHANGED <<lk, ledgers, ledger_id, lock_rest>>

\* done.wait(self.timeout + 5) returns True.
DoneWaitReturns ==
  /\ th[Dispatcher].pc = "wait"
  /\ ledgers[ledger_id].done
  /\ Goto(Dispatcher, "prompt")
  /\ UNCHANGED <<lk, ledgers, ledger_id, lock_rest>>

\* done.wait(self.timeout + 5) expires: CmdResponse() is called.
DoneWaitExpires ==
  /\ th[Dispatcher].pc = "wait"
  /\ ~ledgers[ledger_id].done
  /\ th' = [th EXCEPT ![Dispatcher].pc = "new_enter",
                      ![Dispatcher].phase = "timeout"]
  /\ UNCHANGED <<lk, ledgers, ledger_id, lock_rest>>

\* TCLI.Prompt: CmdResponse() is called.
PromptBegin ==
  /\ th[Dispatcher].pc = "prompt"
  /\ th' = [th EXCEPT ![Dispatcher].pc = "new_enter",
                      ![Dispatcher].phase = "Prompt"]
  /\ UNCHANGED <<lk, ledgers, ledger_id, lock_rest>>

\* TCLI.Callback: with self._lock
CallbackLock(t) ==
  /\ th[t].pc = "start"
  /\ Free(lk, "session")
  /\ lk' = [lk EXCEPT !.session = t]
  /\ Goto(t, "add_call")
  /\ UNCHANGED <<ledgers, ledger_id, lock_rest>>

\* CmdResponse.AddResponse under the lock, statement by statement.
AddResponseBody(t) ==
  LET me == th[t]
      known == me.uid \in DOMAIN ledgers[me.obj].uid_index
  IN  /\ me.pc \in {"add_check", "add_store", "add_row", "add_count"}
      /\ ledgers' =
           [ledgers EXCEPT ![me.obj] =
              CASE me.pc = "add_check" -> @
                [] me.pc = "add_store" -> AddResponseStore(@, me.uid)
                [] me.pc = "add_row" -> AddResponseRow(@, me.uid)
                [] me.pc = "add_count" -> AddResponseCount(@)]
      /\ lk' = IF me.pc = "add_count" \/ (me.pc = "add_check" /\ ~known)
                 THEN Release(lk, "ledger") ELSE lk
      /\ Goto(t, CASE me.pc = "add_check" ->
                        IF known THEN "add_store" ELSE "get_call"
                   [] me.pc = "add_store" -> "add_row"
                   [] me.pc = "add_row" -> "add_count"
                   [] me.pc = "add_count" -> "get_call")
      /\ UNCHANGED <<ledger_id, lock_rest>>

\* CmdResponse.GetRow under the lock; Callback goes on to _FormatResponse
\* or leaves its loop.
GetRowBody(t) ==
  /\ th[t].pc = "get_body"
  /\ ledgers' = [ledgers EXCEPT ![th[t].obj] = GetRow(@)]
  /\ lk' = Release(lk, "ledger")
  /\ Goto(t, IF GetRowResult(ledgers[th[t].obj]) = None THEN "unlock"
             ELSE "format")
  /\ UNCHANGED <<ledger_id, lock_rest>>

\* TCLI._FormatResponse, which takes no lock.
FormatRow(t) ==
  /\ th[t].pc = "format"
  /\ Goto(t, "get_call")
  /\ UNCHANGED <<lk, ledgers, ledger_id, lock_rest>>

\* TCLI.Callback: the end of the with block.
CallbackUnlock(t) ==
  /\ th[t].pc = "unlock"
  /\ lk' = Release(lk, "session")
  /\ Goto(t, "end")
  /\ UNCHANGED <<ledgers, ledger_id, lock_rest>>

\* The steps of thread t.
Step(t) ==
  \/ CallMethod(t)
  \/ Synchronized(t)
  \/ t = Dispatcher /\ CmdRequestsBegin
  \/ t = Dispatcher /\ NewBody
  \/ t = Dispatcher /\ Assign
  \/ t = Dispatcher /\ SetCommandRowBody
  \/ t = Dispatcher /\ SetRequestBody
  \/ t = Dispatcher /\ SendRequests
  \/ t = Dispatcher /\ DoneWaitReturns
  \/ t = Dispatcher /\ DoneWaitExpires
  \/ t = Dispatcher /\ PromptBegin
  \/ t \in Callbacks /\ CallbackLock(t)
  \/ t \in Callbacks /\ AddResponseBody(t)
  \/ t \in Callbacks /\ GetRowBody(t)
  \/ t \in Callbacks /\ FormatRow(t)
  \/ t \in Callbacks /\ CallbackUnlock(t)

LockNext == \E t \in Threads : Step(t)

LockSpec == Init /\ [][LockNext]_vars

\* Every thread that can take a step takes one in the end: the accessor
\* runs each callback it was given, and the dispatching thread goes on.
LockLiveSpec == LockSpec /\ \A t \in Threads : WF_vars(Step(t))

(***************************************************************************)
(* Properties                                                              *)
(***************************************************************************)

\* A step of the running Callback that calls AddResponse.
AddResponseStep == cbpc = "idle" /\ cbpc' = "getrow"

\* A step of the running Callback that calls GetRow.
GetRowStep == cbpc = "getrow" /\ cbpc' # "getrow"

\* A GetRow call that returns a row.
ReleaseStep == GetRowStep /\ row' # None

\* The uids of row r whose response is stored.
Answered(l, r) ==
  {u \in Range(l.row_index[r]) : l.results[u] # EmptyResult}

\* C1: under any arrival order the rows of a ledger are released in ascending
\* row order with none skipped: the i-th row handed to the sink is row i-1, so
\* a later row that is full first waits until every earlier row is released.
C1_ReleasedInRowOrder ==
  \A i \in 1..Len(released) : released[i] = i - 1

\* C1: row 1 has all its responses, row 0 has not, GetRow has been polled by
\* the callbacks of row 1 and nothing has been released.
C1_LaterRowWaits ==
  /\ pc = "wait"
  /\ cbpc = "idle"
  /\ released = <<>>
  /\ 1 \in DOMAIN cmd_response.row_response
  /\ cmd_response.row_response[1] # <<>>
  /\ RowFull(cmd_response, 1)
  /\ ~RowFull(cmd_response, 0)

\* C2: GetRow returns a row only when every uid registered to that row has its
\* response stored and the received uids equal the expected uids as sets.
C2_ReleasedRowIsAnswered ==
  [][ReleaseStep =>
       LET r == row'[2]
       IN  /\ Range(row'[1]) = Range(cmd_response.row_index[r])
           /\ Answered(cmd_response, r) = Range(cmd_response.row_index[r])]_vars

\* C3: a response whose uid already has its response stored changes nothing in
\* the ledger: it is not added to the row's received uids a second time and
\* does not count as another response.
C3_DuplicateChangesNothing ==
  [][(/\ AddResponseStep
      /\ cb_uid' \in DOMAIN cmd_response.results
      /\ cmd_response.results[cb_uid'] # EmptyResult)
       => cmd_response' = cmd_response]_vars

\* C6: AddResponse with a uid this ledger never registered returns False and
\* leaves the whole ledger as it was.
C6_UnknownUidIgnored ==
  [][(AddResponseStep /\ cb_uid' \notin DOMAIN cmd_response.uid_index)
       => (cmd_response' = cmd_response /\ ~cb_known')]_vars

\* C6: a response with an unregistered uid has been given to a ledger that has
\* requests registered.
C6_UnknownUidDelivered ==
  /\ cbpc = "getrow"
  /\ ~cb_known
  /\ cb_uid \notin DOMAIN cmd_response.uid_index
  /\ DOMAIN cmd_response.uid_index # {}

\* C8: in every row the received uids are among the expected uids, and each
\* received uid is recorded in the row it was registered to.
C8_ReceivedSubsetExpected ==
  \A r \in DOMAIN cmd_response.row_response :
    /\ Range(cmd_response.row_response[r]) \subseteq Range(cmd_response.row_index[r])
    /\ \A u \in Range(cmd_response.row_response[r]) : cmd_response.uid_index[u] = r

\* C8: a ledger with two rows, each holding a received response.
C8_ResponsesRecorded ==
  /\ DOMAIN cmd_response.row_response = {0, 1}
  /\ cmd_response.row_response[0] # <<>>
  /\ cmd_response.row_response[1] # <<>>

\* The live ledger object is not replaced in this step.
SameLedger == ledger_id' = ledger_id

\* Every row registered in ledger l has been released.
AllReleased(l) == \A r \in DOMAIN l.row_response : r < l.current_row

\* C4: a Callback whose response is unknown to the live ledger (the response of
\* a discarded ledger) leaves the live ledger as it is and is given no row to
\* render: its GetRow moves no cursor, releases no row and sets no done.
C4_StaleReplyTouchesNothing ==
  [][(GetRowStep /\ ~cb_known)
       => (cmd_response' = cmd_response /\ row' = None)]_vars

\* C5: when the wait of a batch ends with fewer callbacks than requests, it
\* ends by expiry: the ledger is replaced by a fresh one, one warning is
\* printed and nothing shown is taken back; afterwards nothing more is shown
\* or warned for that batch; and whatever is shown belongs to a row that has
\* every expected uid in it.
C5_TimeoutDiscardsOnce ==
  [][/\ (pc = "wait" /\ pc' = "idle" /\ short')
          => /\ timedout'
             /\ cmd_response' = CmdResponse
             /\ warnings' = warnings + 1
             /\ shown' = shown
     /\ (timedout /\ short /\ timedout')
          => (warnings' = warnings /\ shown' = shown)
     /\ (Len(shown') > Len(shown))
          => Range(cmd_response.row_index[row[2]]) \subseteq Range(row[1])]_vars

\* C7: within one ledger the cursor never decreases and moves only by one, in
\* a GetRow call that returns a row; no row is released twice; and a GetRow
\* call on a registered row whose received uids differ from its expected uids
\* returns no row and changes nothing.
C7_ReleaseAtMostOnce ==
  [][/\ (SameLedger /\ cmd_response'.current_row # cmd_response.current_row)
          => (ReleaseStep /\ cmd_response'.current_row = cmd_response.current_row + 1)
     /\ ReleaseStep
          => /\ cmd_response'.current_row = cmd_response.current_row + 1
             /\ \A i \in 1..Len(released) : released[i] # row'[2]
     /\ (/\ GetRowStep
         /\ cmd_response.current_row \in DOMAIN cmd_response.row_response
         /\ Range(cmd_response.row_response[cmd_response.current_row])
              # Range(cmd_response.row_index[cmd_response.current_row]))
          => (row' = None /\ cmd_response' = cmd_response)]_vars

\* C9: done becomes set only when every registered row has been released and
\* every registered request has its response; a GetRow call made when every
\* registered row has been released sets done and returns no row; and done is
\* never cleared on the same ledger.
C9_DoneMeansAllDone ==
  [][/\ (SameLedger /\ ~cmd_response.done /\ cmd_response'.done)
          => /\ AllReleased(cmd_response)
             /\ \A u \in DOMAIN cmd_response.results :
                  cmd_response.results[u] # EmptyResult
     /\ (GetRowStep /\ AllReleased(cmd_response))
          => (cmd_response'.done /\ row' = None)
     /\ (SameLedger /\ cmd_response.done) => cmd_response'.done]_vars

\* C10: when CmdRequests has returned without its wait expiring, every request
\* of the batch has had its callback exactly once and no callback is running,
\* every response of the batch has been rendered exactly once.
C10_AllRowsRendered ==
  (/\ pc = "idle"
   /\ cbpc = "idle"
   /\ ~timedout
   /\ redelivered = 0
   /\ Range(requests) \subseteq delivered)
    => /\ Range(requests) = Range(shown)
       /\ Len(shown) = Len(requests)

\* C11: every CmdRequests call that has started returns, whatever callbacks
\* the accessor makes or omits: the wait on done is bounded.
C11_CmdRequestsReturns == (pc # "idle") ~> (pc = "idle")

\* C11: CmdRequests has returned although no request of its batch has had a
\* callback.
C11_ReturnedWithoutCallbacks ==
  /\ pc = "idle"
  /\ timedout
  /\ requests # <<>>
  /\ Range(requests) \cap delivered = {}

\* The Callback invocation returns in this step.
CallbackReturnStep == GetRowStep /\ row' = None

\* C12: when a Callback invocation returns, the cursor's row is unregistered
\* or still lacks the response of one of its requests, and every request of
\* the rows before the cursor has been rendered.
C12_CallbackDrains ==
  [][CallbackReturnStep =>
       LET l == cmd_response'
           c == l.current_row
       IN  /\ c \in DOMAIN l.row_index => Answered(l, c) # Range(l.row_index[c])
           /\ \A r \in DOMAIN l.row_index :
                r < c => Range(l.row_index[r]) \subseteq Range(shown')]_vars

\* ParseCommandLine has been called on a line that names the command boo, by
\* its name or its alias, while boo is registered.
ParsedBoo ==
  /\ parsed # None
  /\ parsed.op = "ParseCommandLine"
  /\ parsed.line # <<>>
  /\ parsed.line[1] \in {"boo", "B"}
  /\ "boo" \in DOMAIN cli_parser

\* That line carries the append marker.
MarkedAppend == Len(parsed.line) >= 2 /\ parsed.line[2] = APPEND

\* The number of arguments on that line: for a raw descriptor the rest of the
\* line is one argument, or none when nothing follows the name.
ArgCount ==
  LET rest == Len(parsed.line) - (IF MarkedAppend THEN 2 ELSE 1)
  IN  IF cli_parser["boo"].raw_arg /\ rest > 0 THEN 1 ELSE rest

\* C19: for every registered descriptor ParseCommandLine raises ParseError
\* when the number of arguments on the line is below min_args or above
\* max_args, and succeeds when it is within [min_args, max_args].
C19_ArgCountDecides ==
  ParsedBoo =>
    (parsed.result.ok <=> /\ ArgCount >= cli_parser["boo"].min_args
                          /\ ArgCount <= cli_parser["boo"].max_args)

\* C20: for every registered descriptor whose append flag is false
\* ParseCommandLine raises ParseError when the command name carries the
\* append marker, given by its long name or by its alias.
C20_AppendRejected ==
  (ParsedBoo /\ MarkedAppend /\ ~cli_parser["boo"].append)
    => ~parsed.result.ok

\* A turn of ParseCommands: a line was read or the input ended.
ParseCommandsTurn ==
  /\ tcli # <<>>
  /\ input_line' # DirectCall
  /\ (lines_read' # lines_read \/ input_line' = EndOfLines)

\* '/command ...' or '/C ...'
ExplicitCommand(line) ==
  Len(line) >= 2 /\ line[1] = TILDE /\ line[2] \in {"command", "C"}

\* C13: while the session's safe mode is on, a turn of ParseCommands gives
\* requests to the accessor only if its line is an explicit '/command' (or
\* '/C'); lines with inline overrides included.
C13_SafeModeHolds ==
  [][
    (ParseCommandsTurn /\ tcli[1].safemode /\ sent' # <<>>)
      => ExplicitCommand(input_line')
  ]_vars

\* The call c of CmdRequests had no target or no command, came under safe
\* mode without '/command', or came under dry-run.
ShortCircuited(c) ==
  \/ c.device_list = <<>>
  \/ c.command_list = <<>>
  \/ (c.safemode /\ ~c.explicit_cmd)
  \/ c.dry_run

\* C14: a CmdRequests call with no target, no command, under safe mode
\* without '/command', or under dry-run gives nothing to the accessor and
\* leaves the session's ledger the object it was.
C14_ShortCircuitSendsNothing ==
  /\ \A i \in 1..Len(calls) :
       ShortCircuited(calls[i]) =>
         /\ calls[i].submitted = <<>>
         /\ calls[i].returned = calls[i].cmd_response
         /\ calls[i].created = 0
  /\ (\A i \in 1..Len(calls) : ShortCircuited(calls[i])) => sent = <<>>

\* An explicit '/command' for two targets under dry-run: nothing was sent.
C14_DryRunCommand ==
  \E i \in 1..Len(calls) :
    /\ calls[i].dry_run
    /\ calls[i].explicit_cmd
    /\ calls[i].outcome = "dry_run"
    /\ Len(calls[i].device_list) = 2
    /\ calls[i].command_list # <<>>
    /\ sent = <<>>

\* The '||' of a line that have no single '|' to their right.
SplitPoints(line) ==
  {i \in 1..Len(line) :
     /\ line[i] = DBL_PIPE
     /\ \A j \in (i + 1)..Len(line) : line[j] # SGL_PIPE}

\* The first of them.
SplitPoint(line) ==
  CHOOSE i \in SplitPoints(line) : \A j \in SplitPoints(line) : i <= j

\* The part of a line that is for the device.
DevicePart(line) ==
  IF SplitPoints(line) = {} THEN line
  ELSE SubSeq(line, 1, SplitPoint(line) - 1)

\* The part that is the local pipe, each '||' of it a '|'.
PipeSuffix(line) ==
  IF SplitPoints(line) = {} THEN <<>>
  ELSE [j \in 1..(Len(line) - SplitPoint(line) + 1) |->
          IF line[SplitPoint(line) + j - 1] = DBL_PIPE THEN SGL_PIPE
          ELSE line[SplitPoint(line) + j - 1]]

IsPrefix(s, t) == Len(s) <= Len(t) /\ SubSeq(t, 1, Len(s)) = s

\* The lines of buffer name in the TextBuffer b.
BufferLines(b, name) == IF name \in DOMAIN b THEN b[name] ELSE <<>>

\* '\n'.join(command_list) is not ''.
SomeText(c) == c.command_list # <<>> /\ c.command_list # << <<>> >>

\* C16: every CmdRequests call appends its command strings, as given and in
\* order, to each open record, recordall, log and logall buffer before it
\* checks anything, and what the last call of a turn appended is in the
\* buffer after the turn, whether or not anything was sent.
C16_CommandsRecorded ==
  \A i \in 1..Len(calls) :
    LET c == calls[i]
    IN  \A k \in 1..4 :
          (c.names[k] # NoBuffer /\ SomeText(c)) =>
            /\ BufferLines(c.logged, c.names[k])
                 = BufferLines(c.before, c.names[k]) \o c.command_list
            /\ i = Len(calls) =>
                 IsPrefix(BufferLines(c.logged, c.names[k]),
                          BufferLines(buffers[tcli[c.self].buffers],
                                      c.names[k]))

\* A call stopped by safe mode, with a record buffer open, recorded its
\* command.
C16_RecordedUnderSafeMode ==
  \E i \in 1..Len(calls) :
    /\ calls[i].outcome = "safemode"
    /\ calls[i].names[1] # NoBuffer
    /\ SomeText(calls[i])
    /\ sent = <<>>
    /\ IsPrefix(calls[i].command_list,
                BufferLines(buffers[tcli[calls[i].self].buffers],
                            calls[i].names[1]))

\* The settings of a session that C17 names.
Settings(obj) ==
  <<obj.display, obj.filter, obj.mode, obj.timeout, obj.color,
    obj.color_scheme, obj.linewrap, obj.verbose, obj.safemode, obj.record,
    obj.recordall, obj.log, obj.logall>>

\* C17: a turn that makes an overlay leaves the settings of the session as
\* they were; the overlay writes to the session's TextBuffer, and what its
\* CmdRequests appended is in that TextBuffer after the turn.
C17_ParentUnchanged ==
  [][
    (tcli # <<>> /\ Len(tcli') > 1) =>
      /\ Settings(tcli'[1]) = Settings(tcli[1])
      /\ \A k \in 2..Len(tcli') : tcli'[k].buffers = tcli'[1].buffers
      /\ \A i \in 1..Len(calls') :
           LET c == calls'[i]
           IN  \A k \in 1..4 :
                 (c.self > 1 /\ c.names[k] # NoBuffer /\ SomeText(c)) =>
                   IsPrefix(BufferLines(c.logged, c.names[k]),
                            BufferLines(buffers'[tcli'[1].buffers],
                                        c.names[k]))
  ]_vars

\* An overlay with another display and a log buffer of its own has sent the
\* line; the session logs nowhere and its TextBuffer holds the overlay's log.
C17_OverlayLogged ==
  /\ Len(tcli) > 1
  /\ tcli[2].log = "b2"
  /\ tcli[1].log = NoBuffer
  /\ tcli[2].record = "b1"
  /\ tcli[1].record = NoBuffer
  /\ sent # <<>>
  /\ BufferLines(buffers[tcli[1].buffers], "b2") = << <<"show">> >>

\* The names and aliases an inline override can use: the base commands
\* registered with inline=True.
InlineNames ==
  LET base == TCLICommands(1)
  IN  {c \in DOMAIN base : base[c].inline}
        \cup {base[c].short_name :
                c \in {n \in DOMAIN base :
                         base[n].inline /\ base[n].short_name # ""}}

\* The overrides of a line that name no such command.
NotInline(line) ==
  {j \in 2..Len(SplitInline(line)) :
     \/ SplitInline(line)[j] = <<>>
     \/ SplitInline(line)[j][1] \notin InlineNames}

\* The line up to and with the last of them.
BodyOf(line) ==
  LET j == CHOOSE a \in NotInline(line) : \A b \in NotInline(line) : b <= a
  IN  JoinInline(SubSeq(SplitInline(line), 1, j))

\* C18: the registry of an overlay holds the base commands registered with
\* inline=True, as TCLI.RegisterCommands registers them, and no others, so
\* none of the inventory; an override naming another command is not run
\* and stays in the command the overlay (or the session) gets.
C18_OverlayRegistry ==
  /\ \A k \in 2..Len(tcli) :
       /\ DOMAIN tcli[k].cli_parser =
            {c \in DOMAIN TCLICommands(k) : TCLICommands(k)[c].inline}
       /\ \A c \in DOMAIN tcli[k].cli_parser :
            /\ tcli[k].cli_parser[c] = TCLICommands(k)[c]
            /\ tcli[k].cli_parser[c].inline
       /\ DOMAIN tcli[k].cli_parser \cap DOMAIN InventoryCommands = {}
  /\ (Len(tcli) > 1 /\ input_line \in Lines /\ NotInline(input_line) # {}) =>
       /\ \A k \in 2..Len(tcli) : tcli[k].timeout = tcli[1].timeout
       /\ \/ /\ pending_list # <<>>
             /\ pending_list[Len(pending_list)] = input_line
          \/ \E i \in 1..Len(calls) :
               /\ calls[i].self > 1
               /\ Len(calls[i].command_list) = 1
               /\ IsPrefix(BodyOf(input_line), calls[i].command_list[1])

\* 'show //timeout 5 //display csv': the overlay has display csv and the
\* timeout of the session, and was given 'show //timeout 5' to send.
C18_TimeoutStaysInBody ==
  /\ Len(tcli) > 1
  /\ input_line = <<"show", INLINE, "timeout", "5", INLINE, "display", "csv">>
  /\ tcli[2].display = "csv"
  /\ tcli[2].timeout = tcli[1].timeout
  /\ \E i \in 1..Len(calls) :
       /\ calls[i].self > 1
       /\ calls[i].command_list = << <<"show", INLINE, "timeout", "5">> >>
       /\ calls[i].outcome = "sent"

\* The positions of command inside a quoted span, its two quotes included:
\* a span opens at a quote that has a partner to its right and closes at the
\* nearest one.
RECURSIVE QuotedFrom(_, _)

Least(S) == CHOOSE i \in S : \A j \in S : i <= j

\* The span i..j and the spans right of it.
QuotedSpan(command, i, j) == (i..j) \cup QuotedFrom(command, j + 1)

QuotedFrom(command, i) ==
  IF i > Len(command) THEN {}
  ELSE IF /\ command[i] \in QUOTES
          /\ \E j \in (i + 1)..Len(command) : command[j] = command[i]
    THEN QuotedSpan(command, i,
                    Least({j \in (i + 1)..Len(command) :
                             command[j] = command[i]}))
    ELSE QuotedFrom(command, i + 1)

\* The quotes of command that have no partner.
LoneQuotes(command) ==
  {i \in 1..Len(command) : command[i] \in QUOTES} \ QuotedFrom(command, 1)

\* Where the runs of exactly n positions start in a set of positions.
RunsIn(positions, n) ==
  {i \in positions : /\ (i - 1) \notin positions
                     /\ \A k \in 0..(n - 1) : (i + k) \in positions
                     /\ (i + n) \notin positions}

\* Where the unquoted runs of exactly n pipes start.
PipeRuns(command, n) ==
  RunsIn({i \in 1..Len(command) : command[i] = PIPE} \ QuotedFrom(command, 1),
         n)

\* The '||' that have no single '|' to their right.
FreeOf(doubles, singles) == {d \in doubles : \A s \in singles : s < d}

\* The unquoted '||' that have no unquoted single '|' to their right.
SplitCandidates(command) ==
  FreeOf(PipeRuns(command, 2), PipeRuns(command, 1))

\* The characters of command at the positions lo..hi that are not in drop.
RECURSIVE Pick(_, _, _, _)
Pick(command, lo, hi, drop) ==
  IF lo > hi THEN <<>>
  ELSE (IF lo \in drop THEN <<>> ELSE <<command[lo]>>)
         \o Pick(command, lo + 1, hi, drop)

\* The second pipe of every '||' right of position d.
LaterDblPipes(doubles, d) == {e + 1 : e \in {r \in doubles : r > d}}

\* The line split at the '||' that starts at d, the characters at the
\* positions of drop left out, surrounding white space removed.
SplitAt(command, d, drop) ==
  <<Strip(Pick(command, 1, d - 1, drop)),
    Strip(Pick(command, d + 2, Len(command),
               drop \cup LaterDblPipes(PipeRuns(command, 2), d)))>>

\* The line split at the first of the candidates, whole when there is none.
SplitAmong(command, candidates, drop) ==
  IF candidates # {} THEN SplitAt(command, Least(candidates), drop)
  ELSE <<Strip(Pick(command, 1, Len(command), drop)), <<>>>>

\* C21: ExtractPipe splits the line at the first unquoted '||' that has no
\* unquoted single '|' to its right: the device part is everything before
\* it, the local pipe everything after it with each later unquoted '||'
\* rewritten to '|'; a quoted '||' is no split point and is not rewritten;
\* with no such '||' the whole line is the device part and the local pipe is
\* empty.
C21_SplitAtFirstFreeDblPipe ==
  (parsed # None /\ parsed.op = "ExtractPipe") =>
    parsed.result = SplitAmong(parsed.line, SplitCandidates(parsed.line), {})

\* C22, as claimed: the leftmost unquoted '||' of the line is the split
\* point whatever follows it, so the device part is what stands before it
\* (on lines whose quotes all have a partner).
C22_LeftmostDblPipeSplits ==
  (/\ parsed # None
   /\ parsed.op = "ExtractPipe"
   /\ LoneQuotes(parsed.line) = {}
   /\ PipeRuns(parsed.line, 2) # {}) =>
    parsed.result[1] =
      Strip(SubSeq(parsed.line, 1, Least(PipeRuns(parsed.line, 2)) - 1))

\* C22, amended: the split point is the leftmost unquoted '||' right of the
\* last unquoted single '|'; a '||' left of a single '|' stays in the device
\* part as it is, and with no '||' right of the last single '|' the whole
\* line is the device part.  Both parts are the text of the line less the
\* quotes without a partner.
C22_SinglePipeMovesSplit ==
  (parsed # None /\ parsed.op = "ExtractPipe") =>
    parsed.result = SplitAmong(parsed.line, SplitCandidates(parsed.line),
                               LoneQuotes(parsed.line))

\* ExtractPipe was given a line with an unquoted '||' left of an unquoted
\* single '|', and kept it in the device part.
C22_DblPipeLeftOfSinglePipe ==
  /\ parsed # None
  /\ parsed.op = "ExtractPipe"
  /\ \E d \in PipeRuns(parsed.line, 2) :
       \E s \in PipeRuns(parsed.line, 1) : d < s
  /\ \E i \in 1..(Len(parsed.result[1]) - 1) :
       parsed.result[1][i] = PIPE /\ parsed.result[1][i + 1] = PIPE

\* The positions of the ' //' separators of a line.
Boundaries(command) == {i \in 1..Len(command) : command[i] = INLINE}

Greatest(S) == CHOOSE x \in S : \A y \in S : y <= x

\* The last position of the segment that starts right after position b (a
\* separator, or 0 for the start of the line), and the segment.
SegmentEnd(command, b) ==
  IF \E c \in Boundaries(command) : c > b
    THEN Least({c \in Boundaries(command) : c > b}) - 1
    ELSE Len(command)
Segment(command, b) == SubSeq(command, b + 1, SegmentEnd(command, b))

\* The segments right of position b, from left to right.
RECURSIVE SegmentsAfter(_, _)
SegmentsAfter(command, b) ==
  IF \A c \in Boundaries(command) : c <= b THEN <<>>
  ELSE <<Segment(command, SegmentEnd(command, b) + 1)>>
         \o SegmentsAfter(command, SegmentEnd(command, b) + 1)

\* The separators whose segment is 'exit' or does not parse as a command of
\* the registry, and the rightmost of them (0 when there is none).
ScanStops(parser, command) ==
  {b \in Boundaries(command) :
     \/ Segment(command, b) = <<"exit">>
     \/ ~ParseCommandLine(parser, Segment(command, b)).ok}
ScanStop(parser, command) ==
  IF ScanStops(parser, command) = {} THEN 0
  ELSE Greatest(ScanStops(parser, command))

\* Each of the overrides after a ' //', one after the other.
RECURSIVE Marked(_)
Marked(overrides) ==
  IF overrides = <<>> THEN <<>>
  ELSE <<INLINE>> \o Head(overrides) \o Marked(Tail(overrides))

\* C23: ExtractInlineCommands returns as overrides the segments right of the
\* rightmost segment that does not parse as a command of the registry (or is
\* 'exit'), all of them when every segment parses, in the order of the line;
\* when the scan did not stop at an 'exit' the body is the line up to and
\* with the segment that did not parse, unchanged, and the body followed by
\* the overrides, each after ' //', is the line; a line with no ' //' comes
\* back whole, so a '//' with no space before it is no boundary.
C23_OverridesRightOfUnparsed ==
  (parsed # None /\ parsed.op = "ExtractInlineCommands") =>
    /\ parsed.result[2] =
         SegmentsAfter(parsed.line, ScanStop(cli_parser, parsed.line))
    /\ \A k \in 1..Len(parsed.result[2]) :
         ParseCommandLine(cli_parser, parsed.result[2][k]).ok
    /\ Segment(parsed.line, ScanStop(cli_parser, parsed.line)) # <<"exit">> =>
         /\ parsed.result[1] =
              SubSeq(parsed.line, 1,
                     SegmentEnd(parsed.line,
                                ScanStop(cli_parser, parsed.line)))
         /\ parsed.result[1] \o Marked(parsed.result[2]) = parsed.line
    /\ Boundaries(parsed.line) = {} => parsed.result = <<parsed.line, <<>>>>

\* 'show flash://f //bogus //log boo //D csv' with log and display
\* registered: two overrides in the order of the line, 'bogus' and the
\* '//' of flash://f in the body.
C23_TwoOverridesKept ==
  /\ parsed # None
  /\ parsed.op = "ExtractInlineCommands"
  /\ parsed.result[2] = << <<"log", "boo">>, <<"D", "csv">> >>
  /\ parsed.result[1] = <<"show", GluedInline, INLINE, "bogus">>

\* The separators of a line whose segment is 'exit', and whether segment
\* seg stands left or right of the rightmost of them.
ExitStops(line) == {b \in Boundaries(line) : Segment(line, b) = <<"exit">>}
LeftOfExit(line, seg) ==
  \E b \in Boundaries(line) :
    b < Greatest(ExitStops(line)) /\ Segment(line, b) = seg
RightOfExit(line, seg) ==
  \E b \in Boundaries(line) :
    b > Greatest(ExitStops(line)) /\ Segment(line, b) = seg

\* C24: after a line with an 'exit' override whose overrides all name
\* inline commands, the session has not ended, the overrides right of the
\* 'exit' are set in the overlay, and the overrides left of the 'exit' are
\* text of the command: the command handed to CmdRequests is the line up
\* to the 'exit', and no overlay has the setting such an override names.
C24_LeftOfExitIsText ==
  (/\ Len(tcli) > 1
   /\ input_line \in Lines
   /\ ExitStops(input_line) # {}
   /\ NotInline(input_line) = {}) =>
    /\ ~eof
    /\ RightOfExit(input_line, <<"mode", "shell">>) => tcli[2].mode = "shell"
    /\ \E i \in 1..Len(calls) :
         /\ calls[i].self > 1
         /\ calls[i].command_list =
              <<SubSeq(input_line, 1, Greatest(ExitStops(input_line)) - 1)>>
    /\ LeftOfExit(input_line, <<"display", "csv">>) =>
         \A k \in 2..Len(tcli) : tcli[k].display = tcli[1].display

\* C25: a second ExtractInlineCommands, on the body the first returned,
\* returns that body and no override.
C25_SecondCallChangesNothing ==
  (parsed # None /\ parsed.op = "ExtractInlineCommandsAgain") =>
    parsed.result = <<parsed.line, <<>>>>

\* The last segment of a line with ' //', and the overrides that an overlay
\* accepts whatever the state of the session.
LastSegment(line) == Segment(line, Greatest(Boundaries(line)))
AlwaysAccepted ==
  {<<"mode", "shell">>, <<"verbose", "on">>, <<"color_scheme", "dark">>,
   <<"safemode", "off">>, <<"S">>, <<"display", "csv">>}

\* A line for the devices with no ' //'; a line that ParseCommands executes
\* at once: a local command, or a line whose last override is accepted.
DeviceLine(line) == line \notin {<<>>, EndOfLines} /\ line[1] # TILDE
PlainLine(line) == DeviceLine(line) /\ Boundaries(line) = {}
ExecutedLine(line) ==
  /\ line # <<>>
  /\ \/ line[1] = TILDE
     \/ Boundaries(line) # {} /\ LastSegment(line) \in AlwaysAccepted

\* The first call of CmdRequests of the turn is the flush of the commands
\* collected: the session's call, with the commands collected in their
\* order, for the targets of the session, made with the settings the
\* session had before the line and, before a local command, with the
\* buffers as they were; the overrides of a line are run on the overlay by
\* _ExtractInlineCommands before the flush and write to the shared buffers.
FlushedFirst ==
  /\ calls' # <<>>
  /\ calls'[1].self = 1
  /\ calls'[1].command_list = pending_list
  /\ calls'[1].device_list = inventory
  /\ ~calls'[1].explicit_cmd
  /\ calls'[1].safemode = tcli[1].safemode
  /\ calls'[1].names =
       <<tcli[1].record, tcli[1].recordall, tcli[1].log, tcli[1].logall>>
  /\ input_line'[1] = TILDE => calls'[1].before = buffers[tcli[1].buffers]

\* C26: a turn of ParseCommands skips a blank line; appends a line for the
\* devices that has no override to the commands collected and calls
\* nothing; on a local command, on a line with an accepted override and at
\* the end of the input it first calls CmdRequests with the commands
\* collected, in their order, and starts a new collection.  The requests of
\* the turn are those of its calls of CmdRequests one call after the other,
\* so the batches do not overlap.
C26_BatchFlushedFirst ==
  [][
    ParseCommandsTurn =>
      /\ sent' = Concat([i \in 1..Len(calls') |-> calls'[i].submitted])
      /\ \/ /\ calls' = <<>>
            /\ \/ input_line' = <<>> /\ pending_list' = pending_list
               \/ /\ DeviceLine(input_line')
                  /\ pending_list' = Append(pending_list, input_line')
         \/ /\ input_line' # <<>>
            /\ ~PlainLine(input_line')
            /\ pending_list' = <<>>
            /\ pending_list # <<>> => FlushedFirst
      /\ input_line' = <<>> => calls' = <<>>
      /\ PlainLine(input_line') => calls' = <<>>
      /\ (ExecutedLine(input_line') \/ input_line' = EndOfLines) =>
           pending_list' = <<>>
  ]_vars

\* 'show', then '/command show': the line collected went out first, as the
\* session's own batch, and the command's request after it.
C26_BatchBeforeCommand ==
  /\ Len(calls) = 2
  /\ input_line # <<>>
  /\ input_line[1] = TILDE
  /\ calls[1].command_list = << <<"show">> >>
  /\ ~calls[1].explicit_cmd
  /\ calls[1].outcome = "sent"
  /\ calls[2].explicit_cmd
  /\ calls[2].outcome = "sent"
  /\ pending_list = <<>>

\* The exceptions TildeCmd is written to meet: none, the two it turns into
\* a warning, and the EOFError of exit and quit.
Expected == {"", "ParseError", "ValueError", "EOFError"}

\* The buffers of snapshot s other than the one logall names are those of
\* snapshot t: a warning is printed into the logall buffer.
SameButLogall(s, t) ==
  \A name \in DOMAIN s.buffers :
    name # t.obj.logall =>
      /\ name \in DOMAIN t.buffers
      /\ s.buffers[name] = t.buffers[name]

\* The call c of TildeCmd ran no handler that sent commands or ran lines.
NothingRan(c) ==
  /\ c.after.calls = c.before.calls
  /\ c.after.tilde = c.before.tilde

\* C27: for every line given to TildeCmd a ParseError or a ValueError ends
\* as exactly one warning and does not reach the caller; on ParseError no
\* handler has run, no session field has changed and no buffer but the one
\* the warning is logged to; the only exception that leaves TildeCmd is the
\* EOFError of exit and quit.
C27_OnlyExitEscapes ==
  /\ uncaught = ""
  /\ \A i \in DOMAIN tilde :
       LET c == tilde[i]
       IN  /\ c.raised \in Expected
           /\ c.raised = "ParseError" =>
                /\ c.after.obj = c.before.obj
                /\ c.after.warned = c.before.warned + 1
                /\ NothingRan(c)
                /\ SameButLogall(c.after, c.before)
           /\ c.raised = "ValueError" =>
                /\ c.after.warned = c.entry.warned + 1
                /\ c.after.obj = c.entry.obj
           /\ c.raised = "EOFError" => c.command \in {"exit", "quit", "play"}

\* The buffers obj has open for writing.
Writers(obj) == {obj.record, obj.recordall, obj.log, obj.logall} \ {NoBuffer}

\* The four names of obj that are set are four buffers, none of them played.
NamesApart(obj) ==
  /\ \A a, b \in {"record", "recordall", "log", "logall"} :
       (a # b /\ obj[a] # NoBuffer) => obj[a] # obj[b]
  /\ obj.playback = NoBuffer \/ obj.playback \notin Writers(obj)

\* The call c of TildeCmd is the command named, given a buffer that is open
\* when the handler is called.
NamesOpenBuffer(c, commands) ==
  /\ c.command \in commands
  /\ c.raised = ""
  /\ c.args # <<>>
  /\ c.args[1] \in Writers(c.entry.obj) \cup {c.entry.obj.playback}

\* The call c of TildeCmd ended in one warning and left the session as it
\* was.
Rejected(c) ==
  /\ c.after.obj = c.before.obj
  /\ c.after.warned = c.entry.warned + 1
  /\ SameButLogall(c.after, c.entry)
  /\ NothingRan(c)

\* C28: in every state of the session, and at every call of TildeCmd, the
\* names record, recordall, log and logall hold, where set, are pairwise
\* distinct and none is the buffer being played; a record or log command
\* that names a buffer open for writing or open by play is rejected and
\* changes no field of the session, and a play of a buffer open for writing
\* is rejected: no line of it runs.
C28_OpenBuffersApart ==
  /\ \A k \in DOMAIN tcli : NamesApart(tcli[k])
  /\ \A i \in DOMAIN tilde :
       LET c == tilde[i]
       IN  /\ NamesApart(c.before.obj)
           /\ NamesApart(c.entry.obj)
           /\ NamesApart(c.after.obj)
           /\ NamesOpenBuffer(c, {"record", "recordall", "log", "logall"})
                => Rejected(c)
           /\ (/\ NamesOpenBuffer(c, {"play"})
               /\ c.before.obj.playback = NoBuffer) => Rejected(c)

\* A played buffer holds '/record b1' while b1 is the buffer played: the
\* command is rejected and record stays unset.
C28_RecordOfPlayedRejected ==
  \E i \in DOMAIN tilde :
    /\ tilde[i].command = "record"
    /\ tilde[i].args = <<"b1">>
    /\ tilde[i].entry.obj.playback = "b1"
    /\ tilde[i].after.obj.record = NoBuffer
    /\ tilde[i].after.warned = tilde[i].entry.warned + 1

Registered(l) == DOMAIN l.uid_index

\* C31: every request created in a turn gets the uid that follows the
\* last one allocated, so the uids of the requests of the turn are above
\* every uid allocated before and differ from each other; no two ledgers
\* hold the same uid, and a ledger created in the turn holds only uids
\* allocated in the turn.
C31_UidsNeverReused ==
  [][
    /\ UID' = UID + Len(sent')
    /\ \A i \in 1..Len(sent') : sent'[i].uid = UID + i
    /\ \A a \in 1..Len(ledgers') :
         /\ Registered(ledgers'[a]) \subseteq 1..UID'
         /\ a > 1 => \A u \in Registered(ledgers'[a]) : u > UID
         /\ \A b \in 1..Len(ledgers') :
              a # b => Registered(ledgers'[a]) \cap Registered(ledgers'[b]) = {}
  ]_vars

\* A ledger of an earlier turn holds uids 1 and 2, and the ledger of this
\* turn the uids 3 and 4 of the requests just sent.
C31_SecondLedgerNewUids ==
  /\ Len(ledgers) = 2
  /\ Registered(ledgers[1]) = {1, 2}
  /\ Registered(ledgers[2]) = {3, 4}
  /\ [i \in 1..Len(sent) |-> sent[i].uid] = <<3, 4>>
  /\ UID = 4

\* C33: every reply of a row that GetRow has released is rendered, also
\* when the ledger is replaced after the release: each turn of the loop of
\* _FormatResponse over the row shows the reply of its uid and prints no
\* 'Invalid or missing response' warning.
C33_ReleasedRowRendered ==
  [][
    (cbpc = "format" /\ row_pos' = row_pos + 1) =>
      /\ shown' = Append(shown, row[1][row_pos])
      /\ warnings' = warnings
  ]_vars

\* C39: for a registered command whose descriptor has no default value
\* (default_value None), ExecWithDefault returns None without raising and
\* calls no handler.
C39_NoDefaultNoHandler ==
  (/\ parsed # None
   /\ parsed.op = "ExecWithDefault"
   /\ parsed.line \in DOMAIN cli_parser
   /\ cli_parser[parsed.line].default_value = "None") =>
    /\ parsed.result.raised = ""
    /\ parsed.result.handler_calls = <<>>
    /\ parsed.result.returned = None

\* The lines snapshot t has in buffer name beyond those of snapshot s.
Gained(s, t, name) ==
  LET old == BufferLines(s.buffers, name)
      new == BufferLines(t.buffers, name)
  IN  IF IsPrefix(old, new) THEN SubSeq(new, Len(old) + 1, Len(new))
      ELSE << <<"cleared">> >> \o new

\* The call c is a logstop or recordstop that names buffer name.
StopsBuffer(c, name) ==
  /\ c.command \in {"recordstop", "logstop"}
  /\ c.args # <<>>
  /\ c.args[1] = name

\* What the call c of TildeCmd is to have appended to buffer name by the
\* time its handler is called.
LoggedTo(c, name) ==
  IF /\ c.raised # "ParseError"
     /\ c.command # "help"
     /\ name \in {c.before.obj.recordall, c.before.obj.logall}
     /\ ~StopsBuffer(c, name)
    THEN << <<TILDE>> \o c.line >>
  ELSE <<>>

Asked(line) ==
  IF line[1] = "timeout"
    THEN IF TimeoutValue(line[2]) > 0 THEN <<TimeoutValue(line[2])>> ELSE None
  ELSE IF line[1] = "display"
    THEN IF line[2] \in DISPLAY_FORMATS THEN <<line[2]>> ELSE None
  ELSE IF line[2] \in MODE_FORMATS THEN <<line[2]>> ELSE None

\* C38: a timeout, display or mode command with one argument that is not
\* valid ends as one warning and leaves every field of the session as it
\* was; with a valid argument it sets that field to the value given,
\* leaves every other field as it was and prints no warning.
C38_InvalidArgumentWarns ==
  \A i \in DOMAIN tilde :
    LET c == tilde[i]
    IN  (Len(c.line) = 2 /\ c.line[1] \in {"timeout", "display", "mode"}) =>
          IF Asked(c.line) = None
            THEN /\ c.after.obj = c.before.obj
                 /\ c.after.warned = c.before.warned + 1
          ELSE /\ c.after.obj =
                    [c.before.obj EXCEPT ![c.line[1]] = Asked(c.line)[1]]
               /\ c.after.warned = c.before.warned

\* After '/timeout 5' and '/display csv' took effect, '/timeout x' is
\* answered with a warning and the timeout is still 5.
C38_BadTimeoutKeepsFive ==
  /\ Len(tilde) = 1
  /\ tilde[1].line = <<"timeout", "x">>
  /\ tilde[1].before.obj.timeout = 5
  /\ tilde[1].before.obj.display = "csv"
  /\ tilde[1].after.obj = tilde[1].before.obj
  /\ warned = << <<"ValueError">> >>

\* The last call on the inventory was a read of device_list that returned.
ListRead ==
  inv_call # None /\ inv_call.call.op = "device_list" /\ inv_call.raised = ""

\* C34: with maxtargets non-zero, a read of the device list never gives
\* more than maxtargets devices; and a maxtargets command whose value is
\* below the size of the device list as it stands raises ValueError.
C34_ListWithinMaxTargets ==
  [][
    /\ (inv_call' # inv_call /\ ListRead' /\ inv'.maxtargets # 0) =>
         Len(inv_call'.result) <= inv'.maxtargets
    /\ (/\ inv_call' # inv_call
        /\ inv_call'.call.op = "_CmdMaxTargets"
        /\ inv.device_list # None
        /\ MaxTargetsValue(inv_call'.call.args[1]) > 0
        /\ MaxTargetsValue(inv_call'.call.args[1]) < Len(inv.device_list[1])) =>
         inv_call'.raised = "ValueError"
  ]_vars

\* Device d passes filter string f, matched against value: some item of
\* f is the value or is a regular expression that matches it.
Passes(f, value) ==
  \E k \in DOMAIN f :
    IF IsRegexp(f[k]) THEN RegexpMatch(f[k], value) ELSE f[k] = value

\* The devices that match every non-blank inclusion filter and no
\* non-blank exclusion filter of inventory i, none when the targets filter
\* is blank (a null targets expression matches no device).
Matching(i) ==
  IF i.inclusions["targets"] = <<>> THEN <<>>
  ELSE SelectSeq(
         i.devices,
         LAMBDA d :
           /\ \A n \in InclusionNames :
                i.inclusions[n] # <<>> => Passes(i.inclusions[n], AttrValue(n, d))
           /\ \A n \in ExclusionNames :
                i.exclusions[n] # <<>> =>
                  ~Passes(i.exclusions[n], AttrValue(n, d)))

\* C35: a read of device_list returns the devices that match the filters
\* as they stand, or raises ValueError because they are more than
\* maxtargets; and a filter command that raises ValueError leaves the
\* filters and the device list as they were.
C35_ListAgreesWithFilters ==
  [][
    /\ (/\ inv_call' # inv_call
        /\ inv_call'.call.op = "device_list"
        /\ inv.devices # <<>>) =>
         \/ inv_call'.raised = "" /\ inv_call'.result = Matching(inv')
         \/ /\ inv_call'.raised = "ValueError"
            /\ inv'.maxtargets # 0
            /\ Len(Matching(inv')) > inv'.maxtargets
    /\ (/\ inv_call' # inv_call
        /\ inv_call'.call.op = "_CmdFilter"
        /\ inv_call'.raised = "ValueError") =>
         inv' = inv
  ]_vars

\* C36: a call that waits for the devices while a load is in progress
\* returns in the end, and so does the load: the event is set again, also
\* after a fetch that raised; and no call that reads the devices returns
\* while the load is in progress.
C36_ReaderReleased ==
  /\ (inv_pc # None) ~> (inv_pc = None)
  /\ (~inv.devices_loaded) ~> inv.devices_loaded
  /\ [][(inv_call' # inv_call /\ Waits(inv, inv_call'.call)) =>
          inv.devices_loaded]_vars

\* A read of the devices waits while the fetch of the load has raised.
C36_BlockedWhileFetchRaised ==
  /\ inv_pc # None
  /\ inv_pc[1].op = "GetDevices"
  /\ loader = "raised"
  /\ ~inv.devices_loaded


\* A thread is inside a Synchronized method of CmdResponse: past the
\* acquisition of the lock and before its release.
Inside(t) ==
  th[t].pc \in {"new_body", "row_body", "req_results", "req_uid_index",
                "req_row_index", "add_check", "add_store", "add_row",
                "add_count", "get_body"}

\* A thread begins the body of SetCommandRow, SetRequest, AddResponse or
\* GetRow: what it reads now is what it observes of the ledger.
Observes(t) ==
  th[t].pc \in {"row_body", "req_results", "add_check", "get_body"}

\* Every reply stored in the ledger is in the list of its row, and the
\* replies stored are as many as the ledger has counted.
Counted(l) ==
  LET stored == {u \in DOMAIN l.results : l.results[u] # EmptyResult}
  IN  /\ l.response_count = Cardinality(stored)
      /\ \A u \in stored :
           /\ u \in DOMAIN l.uid_index
           /\ u \in Range(l.row_response[l.uid_index[u]])

\* C32: SetCommandRow, SetRequest, AddResponse and GetRow are serialized:
\* at most one thread is inside a ledger method, it holds the lock of the
\* class, and a thread that begins one of the four finds every stored reply
\* of every ledger counted against its row.
C32_LedgerMethodsSerialized ==
  /\ \A s \in Threads : \A t \in Threads : Inside(s) /\ Inside(t) => s = t
  /\ \A t \in Threads : Inside(t) => lk.ledger = t
  /\ \A t \in Threads :
       Observes(t) => \A i \in DOMAIN ledgers : Counted(ledgers[i])

\* The callback of a batch that timed out waits for the lock of the class
\* to enter AddResponse or GetRow of the ledger on which the dispatching
\* thread is between the statements of SetRequest.
C32_WaitsDuringSetRequest ==
  \E t \in Callbacks :
    /\ th[Dispatcher].pc \in {"req_uid_index", "req_row_index"}
    /\ th[t].pc \in {"add_enter", "get_enter"}
    /\ th[t].obj = th[Dispatcher].obj

\* A thread waits for a lock.
Waiting(t) ==
  th[t].pc \in {"start", "new_enter", "row_enter", "req_enter", "add_enter",
                "get_enter"}

\* C40: Callback, CmdRequests with its replacement of the ledger on timeout,
\* and Prompt do not deadlock: a thread that waits for a lock gets it and a
\* lock that is held is released: when a lock is held there comes a moment
\* when both are free, and when a thread waits for a lock every thread
\* comes to its end.
C40_LocksReleasedWaitersProceed ==
  /\ (lk.ledger # NoThread \/ lk.session # NoThread) ~>
       (lk.ledger = NoThread /\ lk.session = NoThread)
  /\ (\E t \in Threads : Waiting(t)) ~>
       (\A t \in Threads : th[t].pc = "end")

\* A callback holds the session lock and waits for the lock of the class,
\* which the dispatching thread holds in the constructor of the ledger that
\* replaces the timed out one, while another callback waits for the
\* session lock.
C40_BothLocksContended ==
  \E s \in Callbacks : \E t \in Callbacks :
    /\ lk.session = s
    /\ th[s].pc \in {"add_enter", "get_enter"}
    /\ lk.ledger = Dispatcher
    /\ th[Dispatcher].phase = "timeout"
    /\ th[t].pc = "start"

=============================================================================
